---- MODULE Spec2Model ----
(***************************************************************************)
(* Coach RAG engine (src/coach_rag_engine): situation context builder,     *)
(* static fallback table, condition reranker, execution tracker and        *)
(* effectiveness assessor of CoachRAGEngine, as a state machine.           *)
(*                                                                         *)
(* Numbers: paces are in hundredths of min/km, scores and confidences in   *)
(* hundredths (0.5 is 50), heart rates in BPM, zone percentages in         *)
(* percent.                                                                *)
(***************************************************************************)
EXTENDS Integers, Sequences, FiniteSets, TLC

VARIABLES
    supabase_url,        \* engine.py:94   "" or a URL
    supabase_anon_key,   \* engine.py:95   "" or a key
    supabase_key,        \* read at engine.py:403,1264,1345; never assigned by __init__
    openai_key,          \* read at engine.py:652,993; never assigned by __init__
    strategy_cache,      \* engine.py:104,106  self._strategy_cache with
                         \* self._cache_timestamps: a set of entries
                         \* [key, strategies, stored_at]
    now,                 \* the wall clock, in seconds
    pending_executions,  \* engine.py:109  self._pending_executions
    task,                \* one record per logical task (coroutine) using the engine
    issued,              \* execution ids the persistence collaborator has handed out
    persisted,           \* per execution id: outcomes the collaborator has accepted
    ops,                 \* operations started so far (bounded by MaxOps)
    perf,                \* pure-function harness: the PerformanceAnalysis under test
    built,               \* pure-function harness: result of _build_situation_context
    rr_in,               \* reranker harness: kb_strategies passed in
    rr_resp,             \* reranker harness: the collaborator's response
    rr_out,              \* reranker harness: what _llm_match_conditions returned
    as_in,               \* assessor harness: recorded context, before and after metrics
    as_out               \* assessor harness: what the scoring part computed

vars == << supabase_url, supabase_anon_key, supabase_key, openai_key,
           strategy_cache, now, pending_executions, task, issued, persisted, ops,
           perf, built, rr_in, rr_resp, rr_out, as_in, as_out >>

engineVars == << supabase_url, supabase_anon_key, supabase_key, openai_key,
                 strategy_cache, now, pending_executions, task, issued, persisted, ops >>
contextVars == << perf, built >>
rerankVars == << rr_in, rr_resp, rr_out >>
assessVars == << as_in, as_out >>
harnessVars == << perf, built, rr_in, rr_resp, rr_out, as_in, as_out >>

(***************************************************************************)
(* models.py enums (by their .value)                                       *)
(***************************************************************************)
CoachPersonality == {"strategist", "pacer", "finisher"}
CoachEnergy == {"low", "medium", "high"}
PaceTrend == {"improving", "stable", "declining", "erratic"}
HRTrend == {"stable", "rising", "spiking", "recovering"}
FatigueLevel == {"none", "low", "moderate", "high", "severe"}
TargetStatus == {"ahead", "on_track", "slightly_behind", "way_behind"}

\* Python's None (for string-valued optionals), and an attribute that was never
\* assigned (reading it raises AttributeError)
None == "None"
ABSENT == "<no attribute>"

\* Optional[int] (models.py:77-80): << >> is None, << n >> is the integer n
IsNone(x) == x = << >>
Val(x) == x[1]

\* Python's abs
Abs(x) == IF x < 0 THEN -x ELSE x

(***************************************************************************)
(* SituationContext.build_tags (models.py:160-211)                         *)
(***************************************************************************)
Opt(cond, tag) == IF cond THEN << tag >> ELSE << >>

build_tags(c) ==
    Opt(c.pace_trend = "declining", "pace_decline")
    \o Opt(c.pace_trend = "stable", "pace_stable")
    \o Opt(c.pace_trend = "improving", "pace_improving")
    \o Opt(c.hr_trend = "rising", "hr_rising")
    \o Opt(c.hr_trend = "stable", "hr_stable")
    \o Opt(c.hr_trend = "spiking", "hr_spiking")
    \o Opt(c.target_status = "ahead", "target_ahead")
    \o Opt(c.target_status = "on_track", "target_on_track")
    \o Opt(c.target_status \in {"slightly_behind", "way_behind"}, "target_behind")
    \o Opt(c.fatigue_level = "low", "fatigue_low")
    \o Opt(c.fatigue_level = "moderate", "fatigue_moderate")
    \o Opt(c.fatigue_level \in {"high", "severe"}, "fatigue_high")
    \o Opt(c.cardiac_drift, "cardiac_drift")
    \o Opt(c.zone_too_high, "zone_too_high")
    \o Opt(c.injury_risk, "injury_risk")
    \o Opt(c.form_breakdown, "form_breakdown")
    \o Opt(c.push_possible, "push_possible")
    \o Opt(c.recovery_needed, "recovery_needed")

(***************************************************************************)
(* CoachRAGEngine._build_situation_context (engine.py:323-383)             *)
(* A PerformanceAnalysis p is a record; zone_percentages is a function     *)
(* whose domain is the set of keys present.                                *)
(***************************************************************************)
ZoneGet(z, k) == IF k \in DOMAIN z THEN z[k] ELSE 0

RatioAtMost85(c, m) ==
    IF m > 0 THEN 100 * c <= 85 * m ELSE 100 * c >= 85 * m

\* current_hr / max_hr < 0.85, for max_hr # 0 (Python true division)
RatioBelow85(c, m) ==
    IF m > 0 THEN 100 * c < 85 * m ELSE 100 * c > 85 * m

\* `and`/`or` short-circuit: the division at engine.py:355 is evaluated iff the
\* operands before it do not decide the expression.
HeadroomEvaluated(p) ==
    /\ p.fatigue_level \in {"none", "low"}
    /\ p.hr_trend = "stable"
    /\ ~IsNone(p.current_hr)
    /\ ~IsNone(p.max_hr)

DivisionByZero(p) == HeadroomEvaluated(p) /\ Val(p.max_hr) = 0

cardiac_drift_of(p) ==
    p.pace_trend = "declining" /\ p.hr_trend \in {"rising", "spiking"}

zone_too_high_inclusive(p) ==
    ZoneGet(p.zone_percentages, 4) + ZoneGet(p.zone_percentages, 5) >= 25

\* engine.py:338-339
zone_too_high_of(p) ==
    ZoneGet(p.zone_percentages, 4) + ZoneGet(p.zone_percentages, 5) > 25

injury_risk_of(p) == Len(p.injury_risk_signals) > 0

form_breakdown_of(p) ==
    p.pace_trend = "declining" /\ p.hr_trend = "stable"

push_possible_any_trend(p) ==
    /\ p.fatigue_level \in {"none", "low"}
    /\ \/ IsNone(p.current_hr)
       \/ IsNone(p.max_hr)
       \/ RatioBelow85(Val(p.current_hr), Val(p.max_hr))

\* engine.py:351-356
push_possible_of(p) ==
    /\ p.fatigue_level \in {"none", "low"}
    /\ p.hr_trend = "stable"
    /\ \/ IsNone(p.current_hr)
       \/ IsNone(p.max_hr)
       \/ RatioBelow85(Val(p.current_hr), Val(p.max_hr))

recovery_needed_without_drift(p) ==
    \/ p.fatigue_level \in {"high", "severe"}
    \/ zone_too_high_of(p)

\* engine.py:359-363
recovery_needed_of(p) ==
    \/ p.fatigue_level \in {"high", "severe"}
    \/ zone_too_high_of(p)
    \/ cardiac_drift_of(p)

ContextFields(p, personality, energy) ==
    [ pace_trend |-> p.pace_trend,
      hr_trend |-> p.hr_trend,
      fatigue_level |-> p.fatigue_level,
      target_status |-> p.target_status,
      cardiac_drift |-> cardiac_drift_of(p),
      zone_too_high |-> zone_too_high_of(p),
      injury_risk |-> injury_risk_of(p),
      form_breakdown |-> form_breakdown_of(p),
      push_possible |-> push_possible_of(p),
      recovery_needed |-> recovery_needed_of(p),
      personality |-> personality,
      energy_level |-> energy ]

\* The outcome of the call: either the context, or the exception that left it.
build_situation_context(p, personality, energy) ==
    IF DivisionByZero(p)
    THEN [ raised |-> "ZeroDivisionError" ]
    ELSE [ raised |-> "none",
           context |-> ContextFields(p, personality, energy),
           situation_tags |-> build_tags(ContextFields(p, personality, energy)) ]

(***************************************************************************)
(* CoachRAGEngine._get_distance_category (engine.py:543-556)               *)
(* The argument is in metres; target_km = metres / 1000.0 is compared with *)
(* 3.0, 5.5, 11.0 and 22.0, so target_km is kept in thousandths of a km.   *)
(***************************************************************************)
get_distance_category_exclusive(target_distance_meters) ==
    LET target_km == target_distance_meters
    IN  IF target_km < 3000 THEN "casual"
        ELSE IF target_km < 5500 THEN "5k"
        ELSE IF target_km < 11000 THEN "10k"
        ELSE IF target_km < 22000 THEN "half"
        ELSE "full"

get_distance_category(target_distance_meters) ==
    LET target_km == target_distance_meters
    IN  IF target_km < 3000 THEN "casual"
        ELSE IF target_km <= 5500 THEN "5k"
        ELSE IF target_km <= 11000 THEN "10k"
        ELSE IF target_km <= 22000 THEN "half"
        ELSE "full"

(***************************************************************************)
(* CoachRAGEngine._get_runner_level (engine.py:558-579)                    *)
(* pace_deviation is a percentage, kept in tenths of a percent.            *)
(***************************************************************************)
get_runner_level_tight(p) ==
    IF /\ p.pace_trend = "stable"
       /\ p.hr_trend = "stable"
       /\ Abs(p.pace_deviation) < 20
    THEN "advanced"
    ELSE IF \/ p.pace_trend = "erratic"
            \/ p.hr_trend = "spiking"
            \/ Abs(p.pace_deviation) > 150
    THEN "beginner"
    ELSE "intermediate"

get_runner_level(p) ==
    IF /\ p.pace_trend = "stable"
       /\ p.hr_trend = "stable"
       /\ Abs(p.pace_deviation) < 30
    THEN "advanced"
    ELSE IF \/ p.pace_trend = "erratic"
            \/ p.hr_trend = "spiking"
            \/ Abs(p.pace_deviation) > 150
    THEN "beginner"
    ELSE "intermediate"

(***************************************************************************)
(* CoachRAGEngine._get_fallback_strategies (engine.py:796-849): the ids of *)
(* the static strategies returned, in order.                               *)
(***************************************************************************)
get_fallback_strategies_with_default(c) ==
    Opt(c.cardiac_drift, "fallback-1")
    \o Opt(c.pace_trend = "declining", "fallback-2")
    \o Opt(c.fatigue_level \in {"high", "severe"}, "fallback-3")
    \o Opt(c.injury_risk, "fallback-4")
    \o << "fallback-default" >>

get_fallback_strategies(c) ==
    LET s == Opt(c.cardiac_drift, "fallback-1")
             \o Opt(c.pace_trend = "declining", "fallback-2")
             \o Opt(c.fatigue_level \in {"high", "severe"}, "fallback-3")
             \o Opt(c.injury_risk, "fallback-4")
    IN  IF s = << >> THEN << "fallback-default" >> ELSE s

\* strategy_name and strategy_text of each entry of the static table
FallbackName(id) ==
    CASE id = "fallback-1" -> "Cardiac Drift Management"
      [] id = "fallback-2" -> "Cadence Reset"
      [] id = "fallback-3" -> "Active Recovery"
      [] id = "fallback-4" -> "Injury Prevention"
      [] OTHER -> "Maintain Pace"

FallbackText(id) ==
    CASE id = "fallback-1" ->
           "Classic drift pattern. Ease 15 sec/km for next 500m. Focus on efficiency, not speed."
      [] id = "fallback-2" ->
           "Quick feet, light steps. Count to 180. Shorten stride, find your rhythm."
      [] id = "fallback-3" ->
           "Next 500m: easy pace, Zone 2. Shake out arms, breathe deep. Recharge."
      [] id = "fallback-4" ->
           "Warning signs detected. Ease pace immediately. Shorter strides, land softly."
      [] OTHER ->
           "Hold current pace. Stay in Zone 3. Steady breathing. You're doing well."

(***************************************************************************)
(* Effectiveness scoring of assess_strategy_effectiveness                  *)
(* (engine.py:1403-1458), for an execution that was found.                 *)
(* ctx is the recorded execution_context: target_status, fatigue,          *)
(* hr_trend, and zone_key, which says whether the dictionary holds a       *)
(* "zone_too_high" key and with which value ("absent", "true", "false").   *)
(* Metrics are records pace, hr, zone; a missing key reads as 0            *)
(* (dict.get(key, 0)).                                                     *)
(***************************************************************************)
\* The paces are Python floats (IEEE-754 binary64), and pace_after - pace_before
\* is rounded: 5.95 - 6.0 is -0.04999999999999982, 3.01 - 3.06 is
\* -0.050000000000000266, 6.1 - 6.0 is 0.09999999999999964 and 5.9 - 6.0 is
\* -0.09999999999999964. rounding is the side of the exact decimal difference
\* on which the float falls, for the pairs of this model whose exact difference
\* is one of the thresholds 0.05 and 0.1 (1 above, -1 below).
\* engine.py:1418  pace_change = pace_after - pace_before, in thirds of a
\* hundredth: the exact difference and the side the float falls on
PaceChange(before, after) ==
    LET rounding ==
          CASE before.pace = 600 /\ after.pace = 595 -> 1
            [] before.pace = 306 /\ after.pace = 301 -> 0 - 1
            [] before.pace = 600 /\ after.pace = 610 -> 0 - 1
            [] before.pace = 600 /\ after.pace = 590 -> 1
            [] OTHER -> 0
    IN  3 * (after.pace - before.pace) + rounding

\* engine.py:1417-1425  pace_change < -0.05
PaceImproved(ctx, before, after) ==
    /\ before.pace > 0 /\ after.pace > 0
    /\ ctx.target_status \in {"slightly_behind", "way_behind"}
    /\ PaceChange(before, after) < -15

\* engine.py:1426-1431: the elif branch of the target-status test,
\* abs(pace_change) < 0.1
PaceStabilized(ctx, before, after) ==
    /\ before.pace > 0 /\ after.pace > 0
    /\ ctx.target_status \notin {"slightly_behind", "way_behind"}
    /\ ctx.fatigue \in {"high", "severe"}
    /\ Abs(PaceChange(before, after)) < 30

\* engine.py:1434-1444
HRStabilized(ctx, before, after) ==
    /\ before.hr > 0 /\ after.hr > 0
    /\ ctx.hr_trend \in {"rising", "spiking"}
    /\ after.hr - before.hr < 3

\* engine.py:1447-1453: context.get("zone_too_high", False)
ZoneLowered(ctx, before, after) ==
    /\ ctx.zone_key = "true"
    /\ after.zone < before.zone

RawScoreFromZero(ctx, before, after) ==
    (IF PaceImproved(ctx, before, after) THEN 30 ELSE 0)
    + (IF PaceStabilized(ctx, before, after) THEN 20 ELSE 0)
    + (IF HRStabilized(ctx, before, after) THEN 20 ELSE 0)
    + (IF ZoneLowered(ctx, before, after) THEN 20 ELSE 0)

\* engine.py:1404 and the += of each triggered condition
RawScore(ctx, before, after) ==
    50 + (IF PaceImproved(ctx, before, after) THEN 30 ELSE 0)
       + (IF PaceStabilized(ctx, before, after) THEN 20 ELSE 0)
       + (IF HRStabilized(ctx, before, after) THEN 20 ELSE 0)
       + (IF ZoneLowered(ctx, before, after) THEN 20 ELSE 0)

Min2(a, b) == IF a < b THEN a ELSE b

ClampUnbounded(score) == score

\* engine.py:1456  score = min(1.0, max(0.0, score))
Clamp(score) == Min2(100, IF 0 > score THEN 0 ELSE score)

ReasonsZoneFirst(ctx, before, after) ==
    Opt(ZoneLowered(ctx, before, after), "Moved to lower zone")
    \o Opt(PaceImproved(ctx, before, after), "Pace improved")
    \o Opt(PaceStabilized(ctx, before, after), "Pace stabilized during recovery")
    \o Opt(HRStabilized(ctx, before, after), "HR stabilized")

\* engine.py:1424, 1429, 1443, 1452: reasons.append in the order of evaluation
Reasons(ctx, before, after) ==
    Opt(PaceImproved(ctx, before, after), "Pace improved")
    \o Opt(PaceStabilized(ctx, before, after), "Pace stabilized during recovery")
    \o Opt(HRStabilized(ctx, before, after), "HR stabilized")
    \o Opt(ZoneLowered(ctx, before, after), "Moved to lower zone")

\* (was_effective, score, reason) as computed before the outcome is recorded;
\* reason is kept as the list of labels that "; ".join concatenates.
Scoring(ctx, before, after) ==
    [ was_effective |-> Reasons(ctx, before, after) # << >>,
      score |-> Clamp(RawScore(ctx, before, after)),
      reason |-> IF Reasons(ctx, before, after) = << >>
                 THEN << "No significant improvement detected" >>
                 ELSE Reasons(ctx, before, after) ]

\* engine.py:1410
NotFoundResult ==
    [ was_effective |-> FALSE, score |-> 0, reason |-> << "Execution not found" >> ]

(***************************************************************************)
(* Python's sorted(..., reverse=True) / list.sort(reverse=True): stable,   *)
(* descending by a tuple key.                                              *)
(***************************************************************************)
RECURSIVE TupleGT(_, _)
TupleGT(a, b) ==
    IF a = << >> \/ b = << >> THEN FALSE
    ELSE IF Head(a) # Head(b) THEN Head(a) > Head(b)
    ELSE TupleGT(Tail(a), Tail(b))

\* the sort keys: of the reranker (engine.py:656 and engine.py:766-770) and of the
\* memory fetch (engine.py:935)
KeyOf(mode, s) ==
    CASE mode = "match" ->
           << IF s.has_match_score /\ ~s.match_score_none THEN s.match_score ELSE 0,
              s.success_rate, s.times_used >>
      [] mode = "relevance" -> << s.relevance_score >>
      [] OTHER -> << s.success_rate, s.times_used >>

\* x goes after every element whose key is >= its own (equal keys keep input order)
RECURSIVE InsertDesc(_, _, _)
InsertDesc(sorted, x, mode) ==
    IF sorted = << >> THEN << x >>
    ELSE IF TupleGT(KeyOf(mode, x), KeyOf(mode, Head(sorted)))
         THEN << x >> \o sorted
         ELSE << Head(sorted) >> \o InsertDesc(Tail(sorted), x, mode)

RECURSIVE SortDesc(_, _)
SortDesc(seq, mode) ==
    IF seq = << >> THEN << >>
    ELSE InsertDesc(SortDesc(SubSeq(seq, 1, Len(seq) - 1), mode), seq[Len(seq)], mode)

Take(seq, n) == SubSeq(seq, 1, Min2(n, Len(seq)))

(***************************************************************************)
(* CoachRAGEngine._llm_match_conditions (engine.py:641-794)                *)
(* A candidate is a record id, success_rate, times_used, has_match_score,  *)
(* match_score_none (the value is None), match_score. The response resp is the outcome of the one post:          *)
(*   kind "exception"  the call raised (timeout included)                  *)
(*   kind "status"     a status other than 200                             *)
(*   kind "ok"         status 200, with body one of                        *)
(*      "no_content"   the choices/message/content path is missing         *)
(*      "unparseable"  content is not JSON                                 *)
(*      "wrapped"      content is an object with a "matches" list          *)
(*      "bare_array"   content is a JSON array of match records            *)
(*      "object"       content is an object without "matches"              *)
(*   fenced says whether content came inside a ``` block, and matches      *)
(*   is the list of match records (has_id, id, match, has_score,           *)
(*   score_none for a JSON null, score).                                   *)
(***************************************************************************)
TopN == 8

\* engine.py:654-658, 780-784, 790-794
FallbackRanking(kb) == Take(SortDesc(kb, "fallback"), TopN)

\* engine.py:753: a record with a truthy "match" and no "id" raises KeyError
LookupRaises(matches) ==
    \E i \in 1..Len(matches) : matches[i].match /\ ~matches[i].has_id

\* engine.py:753: later records overwrite earlier ones with the same id
LookupIndex(matches, id) ==
    LET hits == { i \in 1..Len(matches) : matches[i].match /\ matches[i].id = id }
    IN  IF hits = {} THEN 0 ELSE CHOOSE i \in hits : \A j \in hits : j <= i

\* engine.py:756-761: the loop writes match_score and match_reason into the
\* dicts of kb_strategies themselves; this is the caller's list after the loop
AnnotateInPlace(kb, matches) ==
    [ j \in 1..Len(kb) |->
        LET i == LookupIndex(matches, kb[j].id)
        IN  IF i = 0 THEN kb[j]
            ELSE [ kb[j] EXCEPT !.has_match_score = TRUE,
                                !.match_score_none = matches[i].score_none,
                                !.match_score = IF matches[i].has_score
                                                THEN matches[i].score ELSE 70 ] ]

\* every candidate is kept, the ones absent from the response with the default score
FilterMatchedKeepAbsent(kb, matches) ==
    [ j \in 1..Len(kb) |->
        LET i == LookupIndex(matches, kb[j].id)
        IN  [ kb[j] EXCEPT !.has_match_score = TRUE,
                           !.match_score_none = (i # 0 /\ matches[i].score_none),
                           !.match_score = IF i # 0 /\ matches[i].has_score
                                           THEN matches[i].score ELSE 70 ] ]

\* engine.py:756-762
RECURSIVE FilterMatched(_, _)
FilterMatched(kb, matches) ==
    IF kb = << >> THEN << >>
    ELSE LET s == Head(kb)
             i == LookupIndex(matches, s.id)
         IN  (IF i = 0 THEN << >>
              ELSE << [ s EXCEPT !.has_match_score = TRUE,
                                 !.match_score_none = matches[i].score_none,
                                 !.match_score = IF matches[i].has_score
                                                 THEN matches[i].score ELSE 70 ] >>)
             \o FilterMatched(Tail(kb), matches)

\* engine.py:765-773: comparing a None match_score with a number raises
\* TypeError (two None compare equal and the next key decides)
SortRaises(matched_strategies) ==
    \E i, j \in 1..Len(matched_strategies) :
        matched_strategies[i].match_score_none /\ ~matched_strategies[j].match_score_none

TruncateNine(seq) == Take(seq, TopN + 1)

\* engine.py:775  matched_strategies[:8]
Truncate(seq) == Take(seq, TopN)

\* engine.py:765-775
MatchedRanking(kb, matches) == Truncate(SortDesc(FilterMatched(kb, matches), "match"))

\* engine.py:742-750: the list the lookup is built from, for a parsed JSON object
MatchesOf(resp) == IF resp.body = "wrapped" THEN resp.matches ELSE << >>

llm_match_conditions(okey, kb, resp) ==
    IF okey = ABSENT
    THEN [ raised |-> "AttributeError", out |-> << >>, path |-> "raised",
           kb_after |-> kb ]
    ELSE IF okey = "" \/ kb = << >>
    THEN [ raised |-> "none", out |-> FallbackRanking(kb), path |-> "unconfigured",
           kb_after |-> kb ]
    ELSE IF resp.kind # "ok"
    THEN [ raised |-> "none", out |-> FallbackRanking(kb), path |-> "call_failed",
           kb_after |-> kb ]
    ELSE IF resp.body \in {"no_content", "unparseable"}
    THEN [ raised |-> "none", out |-> FallbackRanking(kb), path |-> "parse_failed",
           kb_after |-> kb ]
    ELSE IF resp.body = "bare_array"
    \* parsed is a list: parsed.get raises AttributeError, caught at line 786
    THEN [ raised |-> "none", out |-> FallbackRanking(kb), path |-> "parse_failed",
           kb_after |-> kb ]
    ELSE IF LookupRaises(MatchesOf(resp))
    \* KeyError at line 753, before the loop of line 756, caught at line 786
    THEN [ raised |-> "none", out |-> FallbackRanking(kb), path |-> "parse_failed",
           kb_after |-> kb ]
    ELSE IF SortRaises(FilterMatched(kb, MatchesOf(resp)))
    \* TypeError at line 765, after the loop has annotated, caught at line 786
    THEN [ raised |-> "none",
           out |-> FallbackRanking(AnnotateInPlace(kb, MatchesOf(resp))),
           path |-> "sort_failed",
           kb_after |-> AnnotateInPlace(kb, MatchesOf(resp)) ]
    ELSE [ raised |-> "none", out |-> MatchedRanking(kb, MatchesOf(resp)),
           path |-> "matched", kb_after |-> AnnotateInPlace(kb, MatchesOf(resp)) ]

(***************************************************************************)
(* The engine as a state machine.                                          *)
(*                                                                         *)
(* Each task runs one coroutine of the engine at a time. A coroutine runs  *)
(* without interruption up to its awaited outbound call (client.post);     *)
(* the other task may run while the call is in flight; the response then   *)
(* resumes the coroutine, which runs to its end. _get_client never         *)
(* suspends.                                                               *)
(***************************************************************************)
Tasks == {"t1", "t2"}
ExecIds == {"e1", "e2"}

\* how many outcomes the persistence collaborator accepts per execution id
MaxPersisted == 2

\* how many operations one run of the model starts
MaxOps == 3

\* PerformanceAnalysis inputs of the engine runs (example_usage.py scenarios 1-3,
\* and a snapshot whose max_hr is 0)
Snapshot(name) ==
    CASE name = "A" ->
           [ pace_trend |-> "declining", hr_trend |-> "rising",
             fatigue_level |-> "moderate", target_status |-> "slightly_behind",
             current_hr |-> << 156 >>, max_hr |-> << 185 >>,
             zone_percentages |-> (4 :> 12 @@ 5 :> 0),
             injury_risk_signals |-> << >> ]
      [] name = "B" ->
           [ pace_trend |-> "declining", hr_trend |-> "spiking",
             fatigue_level |-> "high", target_status |-> "way_behind",
             current_hr |-> << 172 >>, max_hr |-> << 185 >>,
             zone_percentages |-> (4 :> 32 @@ 5 :> 10),
             injury_risk_signals |->
               << "Pace declining while HR rising - possible overexertion",
                  "Form breakdown likely (slower pace in higher zones)" >> ]
      [] name = "C" ->
           [ pace_trend |-> "stable", hr_trend |-> "stable",
             fatigue_level |-> "low", target_status |-> "ahead",
             current_hr |-> << 142 >>, max_hr |-> << 185 >>,
             zone_percentages |-> (4 :> 5 @@ 5 :> 0),
             injury_risk_signals |-> << >> ]
      [] OTHER ->
           [ pace_trend |-> "stable", hr_trend |-> "stable",
             fatigue_level |-> "none", target_status |-> "on_track",
             current_hr |-> << 150 >>, max_hr |-> << 0 >>,
             zone_percentages |-> (4 :> 0 @@ 5 :> 0),
             injury_risk_signals |-> << >> ]

SnapshotNames == {"A", "B", "C", "Z"}

\* before/after metric pairs of the engine runs (example_usage.py:209-210 first)
MetricsPair(name) ==
    CASE name = "improved" ->
           [ before |-> [ pace |-> 675, hr |-> 156, zone |-> 3 ],
             after |-> [ pace |-> 655, hr |-> 152, zone |-> 3 ] ]
      \* slower and with a higher heart rate, in a lower zone
      [] OTHER ->
           [ before |-> [ pace |-> 675, hr |-> 156, zone |-> 4 ],
             after |-> [ pace |-> 700, hr |-> 170, zone |-> 3 ] ]

MetricsNames == {"improved", "worse"}

\* AdaptiveStrategyOutput (models.py:270-297): the fields the engine sets
NoOutput ==
    [ strategy_text |-> "", strategy_name |-> "", confidence |-> 0, execution_id |-> None,
      priority_tags |-> << >>, source_strategies |-> << >>, mem0_insights_used |-> << >> ]

\* engine.py:310-317
FallbackOutput(tags) ==
    [ strategy_text |-> "Maintain current pace. Stay focused. You're doing well.",
      strategy_name |-> "Fallback Strategy", confidence |-> 50, execution_id |-> None,
      priority_tags |-> Take(tags, 3), source_strategies |-> << >>,
      mem0_insights_used |-> << >> ]

\* engine.py:286-298: strategy_data.get(key, default) for each field. A field of
\* the body is << >> when the strategy object has no such key; the text, the
\* name and any number the body holds are passed on as they are (1.7 is 170)
EdgeOutput(tags, body) ==
    [ strategy_text |-> IF body.strategy_text = << >> THEN "Maintain current effort."
                        ELSE body.strategy_text[1],
      strategy_name |-> IF body.strategy_name = << >> THEN "Adaptive Strategy"
                        ELSE body.strategy_name[1],
      confidence |-> IF body.confidence = << >> THEN 70 ELSE body.confidence[1],
      execution_id |-> body.execution_id,
      priority_tags |-> Take(tags, 3), source_strategies |-> << >>,
      mem0_insights_used |-> << >> ]

\* Outcomes of the Edge Function call (engine.py:269-305):
\*   "ok"              status 200 and a body that is a JSON object whose
\*                     "strategy", when it has one, is an object; a body without
\*                     "strategy" ({}) reads as the empty strategy object
\*                     (result.get("strategy", {})), every field absent
\*   "malformed"       status 200 and a body that is not JSON, or JSON that is
\*                     not an object, or an object whose "strategy" is not an
\*                     object (response.json() or .get raises)
\*   "bad_confidence"  status 200 and a strategy whose confidence_score is no
\*                     number (the format at engine.py:300 raises)
\*   "status"          another status
\*   "exception"       the call raised
\*   "timeout"         the client's 30 s timeout expired (httpx raises)
EdgeResponses(fresh) ==
    [ kind : {"ok"}, execution_id : {None} \cup fresh,
      confidence : {<< >>, << 90 >>, << 170 >>},
      strategy_name : {<< >>, << "Cadence Reset" >>},
      strategy_text : {<< >>, << "text chosen by the Edge Function" >>} ]
    \cup [ kind : {"malformed", "bad_confidence", "status", "exception", "timeout"},
           execution_id : {None}, confidence : {<< >>},
           strategy_name : {<< >>}, strategy_text : {<< >>} ]

EdgeReturnUncaught(r) ==
    IF r.kind \in {"malformed", "timeout"} THEN "raised Exception" ELSE "output"

\* engine.py:266-317: the try block returns the strategy, and every exception raised
\* in it is caught at line 307, where the fallback output is returned
EdgeReturn(r) == "output"

\* Outcomes of a persistence RPC (record_strategy_execution, record_strategy_outcome):
\* status 200, another status, or an exception (timeout included)
RpcKinds == {"ok", "status", "exception"}

\* context is the local of get_adaptive_strategy (engine.py:258), "not built"
\* before it is bound
IdleTask ==
    [ context |-> [ raised |-> "not built" ], op |-> "idle", pc |-> "idle", snap |-> "-", eid |-> "-", metrics |-> "-",
      source |-> "-", ret |-> "-", output |-> NoOutput, result |-> NotFoundResult,
      found |-> FALSE, calls |-> 0, ctx_built |-> FALSE, persist_ok |-> FALSE,
      after_recorded |-> FALSE, strategy_id |-> None, resp |-> "-",
      present_at_call |-> FALSE ]

\* a task takes a new operation when it runs none; MaxOps bounds the run
Free(t) == task[t].pc \in {"idle", "done"} /\ ops < MaxOps

PendingIds == { e \in ExecIds : pending_executions[e].present }

\* the ids the collaborator may hand out next: it never repeats an id, and never
\* hands out one it already holds an outcome for
Fresh == { e \in ExecIds : e \notin issued /\ persisted[e] = 0 }
NoEntry ==
    [ present |-> FALSE, strategy_id |-> None,
      execution_context |-> [ target_status |-> "-", fatigue |-> "-", hr_trend |-> "-",
                              zone_key |-> "absent" ] ]

EdgeUnconfiguredUrlOnly == supabase_url = ""

\* engine.py:254  not self.supabase_url or not self.supabase_anon_key
EdgeUnconfigured == supabase_url = "" \/ supabase_anon_key = ""

\* engine.py:1264, 1345  not self.supabase_url or not self.supabase_key:
\* "return" when the guard is true, "raise" when reading supabase_key raises,
\* "go" otherwise
RestGuard ==
    IF supabase_url = "" THEN "return"
    ELSE IF supabase_key = ABSENT THEN "raise"
    ELSE IF supabase_key = "" THEN "return"
    ELSE "go"

(***************************************************************************)
(* get_adaptive_strategy (engine.py:230-317)                               *)
(***************************************************************************)
GetAdaptiveStrategy_Call(t, name) ==
    /\ Free(t)
    /\ LET ctx == build_situation_context(Snapshot(name), "strategist", "medium")
           base == [ IdleTask EXCEPT !.op = "get_adaptive_strategy", !.snap = name ]
       IN  task' = [ task EXCEPT ![t] =
             IF EdgeUnconfigured
             THEN [ base EXCEPT !.pc = "done", !.ret = "raised ValueError" ]
             ELSE IF ctx.raised # "none"
             THEN [ base EXCEPT !.pc = "done", !.ret = "raised ZeroDivisionError" ]
             ELSE [ base EXCEPT !.pc = "await", !.ctx_built = TRUE, !.calls = 1,
                                !.context = ctx ] ]
    /\ ops' = ops + 1
    /\ UNCHANGED << harnessVars, now, supabase_url, supabase_anon_key, supabase_key, openai_key,
                    strategy_cache, pending_executions, issued, persisted >>

GetAdaptiveStrategy_Response(t, r) ==
    /\ task[t].op = "get_adaptive_strategy" /\ task[t].pc = "await"
    /\ LET ctx == build_situation_context(Snapshot(task[t].snap), "strategist", "medium")
       IN  task' = [ task EXCEPT ![t].pc = "done", ![t].ret = EdgeReturn(r),
                       ![t].resp = r.kind,
                       ![t].output = IF EdgeReturn(r) # "output" THEN NoOutput
                                     ELSE IF r.kind = "ok"
                                     THEN EdgeOutput(ctx.situation_tags, r)
                                     ELSE FallbackOutput(ctx.situation_tags) ]
    /\ issued' = IF r.kind = "ok" /\ r.execution_id # None
                 THEN issued \cup {r.execution_id} ELSE issued
    /\ UNCHANGED ops
    /\ UNCHANGED << harnessVars, now, supabase_url, supabase_anon_key, supabase_key, openai_key,
                    strategy_cache, pending_executions, persisted >>

(***************************************************************************)
(* _record_execution (engine.py:1254-1319)                                 *)
(* source is the id of strategy.source_strategies[0], or None when the     *)
(* list is empty.                                                          *)
(***************************************************************************)
SourceIds == {None, "fallback-1", "kb-17"}

\* engine.py:1271-1275
StrategyIdOf(source) ==
    IF source = None THEN None
    ELSE IF source \in {"fallback-1", "fallback-2", "fallback-3", "fallback-4",
                        "fallback-default"} THEN None
    ELSE source

\* engine.py:1277-1286: the keys the assessor later reads
ExecutionContextOf(c) ==
    [ target_status |-> c.target_status, fatigue |-> c.fatigue_level,
      hr_trend |-> c.hr_trend, zone_key |-> "absent" ]

RecordExecution_Call(t, name, source) ==
    /\ Free(t)
    /\ build_situation_context(Snapshot(name), "strategist", "medium").raised = "none"
    /\ LET base == [ IdleTask EXCEPT !.op = "record_execution", !.snap = name,
                                     !.source = source ]
       IN  task' = [ task EXCEPT ![t] =
             CASE RestGuard = "return" -> [ base EXCEPT !.pc = "done", !.ret = "None" ]
               [] RestGuard = "raise" ->
                    [ base EXCEPT !.pc = "done", !.ret = "raised AttributeError" ]
               [] OTHER -> [ base EXCEPT !.pc = "await", !.calls = 1,
                                         !.strategy_id = StrategyIdOf(source) ] ]
    /\ ops' = ops + 1
    /\ UNCHANGED << harnessVars, now, supabase_url, supabase_anon_key, supabase_key, openai_key,
                    strategy_cache, pending_executions, issued, persisted >>

\* the collaborator answers 200 with a new execution id e, or fails
RecordExecution_Response(t, kind, e) ==
    /\ task[t].op = "record_execution" /\ task[t].pc = "await"
    /\ kind = "ok" => e \in Fresh
    /\ LET ctx == build_situation_context(Snapshot(task[t].snap), "strategist", "medium")
       IN  IF kind = "ok"
           THEN /\ pending_executions' = [ pending_executions EXCEPT ![e] =
                      [ present |-> TRUE, strategy_id |-> task[t].strategy_id,
                        execution_context |-> ExecutionContextOf(ctx.context) ] ]
                /\ issued' = issued \cup {e}
                /\ task' = [ task EXCEPT ![t].pc = "done", ![t].ret = "None",
                                         ![t].eid = e, ![t].resp = kind,
                                         ![t].output.execution_id = e ]
           ELSE /\ task' = [ task EXCEPT ![t].pc = "done", ![t].ret = "None",
                                         ![t].resp = kind ]
                /\ UNCHANGED << pending_executions, issued >>
    /\ UNCHANGED ops
    /\ UNCHANGED << harnessVars, now, supabase_url, supabase_anon_key, supabase_key, openai_key,
                    strategy_cache, persisted >>

(***************************************************************************)
(* record_strategy_outcome (engine.py:1321-1379)                           *)
(***************************************************************************)
RemovePendingAll(store, e) == [ x \in ExecIds |-> NoEntry ]

\* engine.py:1371-1372
RemovePending(store, e) == [ store EXCEPT ![e] = NoEntry ]

RecordStrategyOutcome_Call(t, e) ==
    /\ Free(t)
    /\ LET base == [ IdleTask EXCEPT !.op = "record_strategy_outcome", !.eid = e,
                                     !.after_recorded = (persisted[e] > 0) ]
       IN  task' = [ task EXCEPT ![t] =
             CASE RestGuard = "return" -> [ base EXCEPT !.pc = "done", !.ret = "False" ]
               [] RestGuard = "raise" ->
                    [ base EXCEPT !.pc = "done", !.ret = "raised AttributeError" ]
               [] OTHER -> [ base EXCEPT !.pc = "await", !.calls = 1 ] ]
    /\ ops' = ops + 1
    /\ UNCHANGED << harnessVars, now, supabase_url, supabase_anon_key, supabase_key, openai_key,
                    strategy_cache, pending_executions, issued, persisted >>

\* engine.py:1367-1379, shared by the direct call and the call made by the assessor
OutcomeResponse(t, kind) ==
    /\ kind = "ok" => persisted[task[t].eid] < MaxPersisted
    /\ IF kind = "ok"
       THEN /\ persisted' = [ persisted EXCEPT ![task[t].eid] = @ + 1 ]
            /\ pending_executions' = RemovePending(pending_executions, task[t].eid)
       ELSE UNCHANGED << persisted, pending_executions >>

RecordStrategyOutcome_Response(t, kind) ==
    /\ task[t].op = "record_strategy_outcome" /\ task[t].pc = "await"
    /\ OutcomeResponse(t, kind)
    /\ task' = [ task EXCEPT ![t].pc = "done",
                             ![t].ret = IF kind = "ok" THEN "True" ELSE "False",
                             ![t].resp = kind, ![t].persist_ok = (kind = "ok") ]
    /\ UNCHANGED ops
    /\ UNCHANGED << harnessVars, now, supabase_url, supabase_anon_key, supabase_key, openai_key,
                    strategy_cache, issued >>

(***************************************************************************)
(* assess_strategy_effectiveness (engine.py:1385-1473)                     *)
(***************************************************************************)
AssessNotFoundNever(entry) == FALSE

\* engine.py:1408-1409  execution = self._pending_executions.get(execution_id);
\* if not execution
AssessNotFound(entry) == ~entry.present

Assess_Call(t, e, m) ==
    /\ Free(t)
    /\ LET base == [ IdleTask EXCEPT !.op = "assess_strategy_effectiveness", !.eid = e,
                                     !.metrics = m,
                                     !.present_at_call = (e \in PendingIds),
                                     !.after_recorded = (persisted[e] > 0) ]
           entry == pending_executions[e]
           scored == [ base EXCEPT !.found = TRUE,
                         !.result = Scoring(entry.execution_context,
                                            MetricsPair(m).before, MetricsPair(m).after) ]
       IN  task' = [ task EXCEPT ![t] =
             IF AssessNotFound(entry)
             THEN [ base EXCEPT !.pc = "done", !.ret = "tuple", !.result = NotFoundResult ]
             ELSE CASE RestGuard = "return" ->
                         [ scored EXCEPT !.pc = "done", !.ret = "tuple" ]
                    [] RestGuard = "raise" ->
                         [ scored EXCEPT !.pc = "done", !.ret = "raised AttributeError" ]
                    [] OTHER -> [ scored EXCEPT !.pc = "await", !.calls = 1 ] ]
    /\ ops' = ops + 1
    /\ UNCHANGED << harnessVars, now, supabase_url, supabase_anon_key, supabase_key, openai_key,
                    strategy_cache, pending_executions, issued, persisted >>

Assess_Response(t, kind) ==
    /\ task[t].op = "assess_strategy_effectiveness" /\ task[t].pc = "await"
    /\ OutcomeResponse(t, kind)
    /\ task' = [ task EXCEPT ![t].pc = "done", ![t].ret = "tuple",
                             ![t].resp = kind, ![t].persist_ok = (kind = "ok") ]
    /\ UNCHANGED ops
    /\ UNCHANGED << harnessVars, now, supabase_url, supabase_anon_key, supabase_key, openai_key,
                    strategy_cache, issued >>

(***************************************************************************)
(* Specification of the engine                                             *)
(***************************************************************************)
HarnessIdle ==
    /\ perf = << >> /\ built = << >>
    /\ rr_in = << >> /\ rr_resp = << >> /\ rr_out = << >>
    /\ as_in = << >> /\ as_out = << >>

\* __init__ (engine.py:94-109). supabase_key is not assigned there: the attribute
\* exists only where the embedding application assigns it.
Init ==
    /\ supabase_url \in {"", "https://project.supabase.co"}
    /\ supabase_anon_key \in {"", "anon-key"}
    /\ supabase_key \in {ABSENT, "", "service-key"}
    /\ openai_key = ABSENT
    /\ strategy_cache = {}
    /\ now = 0
    /\ pending_executions = [ e \in ExecIds |-> NoEntry ]
    /\ task = [ t \in Tasks |-> IdleTask ]
    /\ issued = {}
    /\ persisted = [ e \in ExecIds |-> 0 ]
    /\ ops = 0
    /\ HarnessIdle

Next ==
    \/ \E t \in Tasks, name \in SnapshotNames : GetAdaptiveStrategy_Call(t, name)
    \/ \E t \in Tasks, r \in EdgeResponses(Fresh) :
           GetAdaptiveStrategy_Response(t, r)
    \/ \E t \in Tasks, name \in SnapshotNames, source \in SourceIds :
           RecordExecution_Call(t, name, source)
    \/ \E t \in Tasks, kind \in RpcKinds, e \in ExecIds :
           RecordExecution_Response(t, kind, e)
    \/ \E t \in Tasks, e \in ExecIds : RecordStrategyOutcome_Call(t, e)
    \/ \E t \in Tasks, kind \in RpcKinds : RecordStrategyOutcome_Response(t, kind)
    \/ \E t \in Tasks, e \in ExecIds, m \in MetricsNames : Assess_Call(t, e, m)
    \/ \E t \in Tasks, kind \in RpcKinds : Assess_Response(t, kind)

Spec == Init /\ [][Next]_vars

(***************************************************************************)
(* Cancellation of a request at its awaited outbound call, on a configured *)
(* engine.                                                                 *)
(*                                                                         *)
(* task.cancel() raises asyncio.CancelledError inside the coroutine at the *)
(* await of client.post (engine.py:269, 1288, 1351). CancelledError is a    *)
(* BaseException: the handlers of lines 307, 1318 and 1376 are              *)
(* "except Exception" and do not catch it, and there is no finally, so     *)
(* no statement after the await runs and the error leaves the coroutine    *)
(* (from record_strategy_outcome through assess_strategy_effectiveness,    *)
(* line 1461). On an interpreter older than 3.8, where CancelledError is   *)
(* an Exception, the coroutine goes on as the "exception" response of the  *)
(* actions above.                                                          *)
(*                                                                         *)
(* The request may have reached the collaborator before the cancellation:  *)
(* e is the execution id whose remote record the abandoned call still      *)
(* created or updated, None when it did not.                               *)
(***************************************************************************)
CancelRemote(t, e) ==
    IF e = None THEN UNCHANGED << issued, persisted >>
    ELSE IF task[t].op \in {"record_strategy_outcome", "assess_strategy_effectiveness"}
    THEN /\ e = task[t].eid /\ persisted[e] < MaxPersisted
         /\ persisted' = [ persisted EXCEPT ![e] = @ + 1 ]
         /\ UNCHANGED issued
    ELSE /\ e \in Fresh
         /\ issued' = issued \cup {e}
         /\ UNCHANGED persisted

CancelAfterRemoval(t, e) ==
    /\ task[t].pc = "await"
    /\ task' = [ task EXCEPT ![t].pc = "done", ![t].ret = "raised CancelledError",
                             ![t].resp = "cancelled" ]
    /\ CancelRemote(t, e)
    /\ pending_executions' =
          IF task[t].op \in {"record_strategy_outcome", "assess_strategy_effectiveness"}
          THEN RemovePending(pending_executions, task[t].eid)
          ELSE pending_executions
    /\ UNCHANGED << harnessVars, now, supabase_url, supabase_anon_key, supabase_key,
                    openai_key, strategy_cache, ops >>

Cancel(t, e) ==
    /\ task[t].pc = "await"
    /\ task' = [ task EXCEPT ![t].pc = "done", ![t].ret = "raised CancelledError",
                             ![t].resp = "cancelled" ]
    /\ CancelRemote(t, e)
    /\ UNCHANGED << harnessVars, now, supabase_url, supabase_anon_key, supabase_key,
                    openai_key, strategy_cache, pending_executions, ops >>

\* the engine with the three settings assigned by the embedding application
InitCancel ==
    /\ supabase_url = "https://project.supabase.co"
    /\ supabase_anon_key = "anon-key"
    /\ supabase_key = "service-key"
    /\ openai_key = ABSENT
    /\ strategy_cache = {}
    /\ now = 0
    /\ pending_executions = [ e \in ExecIds |-> NoEntry ]
    /\ task = [ t \in Tasks |-> IdleTask ]
    /\ issued = {}
    /\ persisted = [ e \in ExecIds |-> 0 ]
    /\ ops = 0
    /\ HarnessIdle

NextCancel ==
    \/ \E t \in Tasks, name \in SnapshotNames : GetAdaptiveStrategy_Call(t, name)
    \/ \E t \in Tasks, r \in EdgeResponses(Fresh) :
           GetAdaptiveStrategy_Response(t, r)
    \/ \E t \in Tasks, name \in SnapshotNames, source \in SourceIds :
           RecordExecution_Call(t, name, source)
    \/ \E t \in Tasks, kind \in RpcKinds, e \in ExecIds :
           RecordExecution_Response(t, kind, e)
    \/ \E t \in Tasks, e \in ExecIds : RecordStrategyOutcome_Call(t, e)
    \/ \E t \in Tasks, kind \in RpcKinds : RecordStrategyOutcome_Response(t, kind)
    \/ \E t \in Tasks, e \in ExecIds, m \in MetricsNames : Assess_Call(t, e, m)
    \/ \E t \in Tasks, kind \in RpcKinds : Assess_Response(t, kind)
    \/ \E t \in Tasks, e \in {None} \cup ExecIds : Cancel(t, e)

SpecCancel == InitCancel /\ [][NextCancel]_vars

(***************************************************************************)
(* Specification of the engine's configuration-independent parts, each     *)
(* applied to inputs drawn from bounded sets.                              *)
(***************************************************************************)
EngineIdle ==
    /\ supabase_url = "" /\ supabase_anon_key = "" /\ supabase_key = ABSENT
    /\ strategy_cache = {}
    /\ now = 0
    /\ pending_executions = [ e \in ExecIds |-> NoEntry ]
    /\ task = [ t \in Tasks |-> IdleTask ]
    /\ issued = {}
    /\ persisted = [ e \in ExecIds |-> 0 ]
    /\ ops = 0

\* (current_hr, max_hr) pairs: absent values, ratios 0.75, 0.85 and 0.9, and max_hr 0
HeartRatePairs ==
    { << << >>, << >> >>, << << 150 >>, << >> >>, << << >>, << 200 >> >>,
      << << 150 >>, << 200 >> >>, << << 170 >>, << 200 >> >>,
      << << 180 >>, << 200 >> >>, << << 150 >>, << 0 >> >> }

\* zone_percentages: no keys, keys 4 and 5 summing to 25 and to 26, key 5 alone
ZoneInputs ==
    { << >>, (4 :> 12 @@ 5 :> 13), (4 :> 13 @@ 5 :> 13), (5 :> 42) }

PerfInputs ==
    { [ pace_trend |-> pt, hr_trend |-> ht, fatigue_level |-> fl, target_status |-> ts,
        current_hr |-> hr[1], max_hr |-> hr[2], zone_percentages |-> z,
        injury_risk_signals |-> inj ] :
      pt \in PaceTrend, ht \in HRTrend, fl \in FatigueLevel, ts \in TargetStatus,
      hr \in HeartRatePairs, z \in ZoneInputs, inj \in {<< >>, << "knee pain" >>} }

NotCalled == [ raised |-> "not called" ]

InitContext ==
    /\ EngineIdle /\ openai_key = ABSENT
    /\ perf \in [ p : PerfInputs, personality : CoachPersonality, energy : CoachEnergy ]
    /\ built = NotCalled
    /\ rr_in = << >> /\ rr_resp = << >> /\ rr_out = << >>
    /\ as_in = << >> /\ as_out = << >>

BuildContext ==
    /\ built = NotCalled
    /\ built' = build_situation_context(perf.p, perf.personality, perf.energy)
    /\ UNCHANGED << engineVars, perf, rerankVars, assessVars >>

SpecContext == InitContext /\ [][BuildContext]_vars

(***************************************************************************)
(* _get_distance_category on bounded target distances                      *)
(***************************************************************************)
\* target distances in metres: every half kilometre up to 30 km, the metre on
\* each side of every threshold, the marathon and an ultra
DistanceInputs ==
    { 500 * k : k \in 0..60 }
    \cup { b + d : b \in {3000, 5500, 11000, 22000}, d \in {0 - 1, 0, 1} }
    \cup { 1, 42195, 100000 }

InitDistance ==
    /\ EngineIdle /\ openai_key = ABSENT
    /\ perf \in [ target_distance : DistanceInputs ]
    /\ built = NotCalled
    /\ rr_in = << >> /\ rr_resp = << >> /\ rr_out = << >>
    /\ as_in = << >> /\ as_out = << >>

GetDistanceCategory ==
    /\ built = NotCalled
    /\ built' = [ raised |-> "none",
                  distance_category |-> get_distance_category(perf.target_distance) ]
    /\ UNCHANGED << engineVars, perf, rerankVars, assessVars >>

SpecDistance == InitDistance /\ [][GetDistanceCategory]_vars

(***************************************************************************)
(* _get_runner_level on bounded snapshots                                  *)
(***************************************************************************)
\* pace deviations in tenths of a percent: 0, and each side of 3.0 and 15.0, both signs
InitRunnerLevel ==
    /\ EngineIdle /\ openai_key = ABSENT
    /\ perf \in [ pace_trend : PaceTrend, hr_trend : HRTrend,
                   pace_deviation :
                     { sg * d : sg \in {0 - 1, 1},
                                d \in {0, 29, 30, 31, 149, 150, 151, 400} } ]
    /\ built = NotCalled
    /\ rr_in = << >> /\ rr_resp = << >> /\ rr_out = << >>
    /\ as_in = << >> /\ as_out = << >>

GetRunnerLevel ==
    /\ built = NotCalled
    /\ built' = [ raised |-> "none", runner_level |-> get_runner_level(perf) ]
    /\ UNCHANGED << engineVars, perf, rerankVars, assessVars >>

SpecRunnerLevel == InitRunnerLevel /\ [][GetRunnerLevel]_vars

(***************************************************************************)
(* _get_fallback_strategies on every SituationContext (the fields it reads) *)
(***************************************************************************)
InitFallback ==
    /\ EngineIdle /\ openai_key = ABSENT
    /\ perf \in [ cardiac_drift : BOOLEAN, pace_trend : PaceTrend,
                   fatigue_level : FatigueLevel, injury_risk : BOOLEAN ]
    /\ built = NotCalled
    /\ rr_in = << >> /\ rr_resp = << >> /\ rr_out = << >>
    /\ as_in = << >> /\ as_out = << >>

GetFallbackStrategies ==
    /\ built = NotCalled
    /\ built' = [ raised |-> "none", strategies |-> get_fallback_strategies(perf) ]
    /\ UNCHANGED << engineVars, perf, rerankVars, assessVars >>

SpecFallback == InitFallback /\ [][GetFallbackStrategies]_vars

(***************************************************************************)
(* The reranker on bounded candidate lists and responses                   *)
(***************************************************************************)
\* longest candidate list tried (the retrieval stage asks for 15, TopN is 8)
MaxCands == 10

Cand(id, sr, tu) ==
    [ id |-> id, success_rate |-> sr, times_used |-> tu,
      has_match_score |-> FALSE, match_score_none |-> FALSE, match_score |-> 0 ]

\* short lists over a small pool, every order and repetition
CandPool == { Cand(id, sr, tu) : id \in 1..2, sr \in {50, 90}, tu \in {0, 5} }
ShortLists == {<< >>} \cup { << a >> : a \in CandPool }
              \cup { << a, b >> : a \in CandPool, b \in CandPool }

\* long lists: distinct ids or ids repeating with period 3, rates rising, falling or tied
LongList(n, ids, rates) ==
    [ i \in 1..n |->
        Cand(IF ids = "distinct" THEN i ELSE ((i - 1) % 3) + 1,
             CASE rates = "rising" -> 10 * i
               [] rates = "falling" -> 10 * (n - i)
               [] OTHER -> 50,
             i % 2) ]

LongLists ==
    { LongList(n, ids, rates) : n \in (TopN - 1)..MaxCands,
      ids \in {"distinct", "repeating"}, rates \in {"rising", "falling", "tied"} }

MatchRecords ==
    [ has_id : {TRUE}, id : {1, 2, 9, 99}, match : BOOLEAN, has_score : {TRUE},
      score_none : {FALSE}, score : {30, 90} ]
    \cup [ has_id : {FALSE}, id : {0}, match : BOOLEAN, has_score : {FALSE},
           score_none : {FALSE}, score : {0} ]
    \cup [ has_id : {TRUE}, id : {1}, match : {TRUE}, has_score : {FALSE},
           score_none : {FALSE}, score : {0} ]
    \* "match_score": null
    \cup [ has_id : {TRUE}, id : {1, 2}, match : {TRUE}, has_score : {TRUE},
           score_none : {TRUE}, score : {0} ]

\* every candidate of kb reported as a match, with scores falling along the list
AllMatch(n) ==
    [ i \in 1..n |-> [ has_id |-> TRUE, id |-> i, match |-> TRUE, has_score |-> TRUE,
                       score_none |-> FALSE,
                       score |-> 100 - i ] ]

MatchLists ==
    {<< >>} \cup { << a >> : a \in MatchRecords }
    \cup { << a, b >> : a \in MatchRecords, b \in MatchRecords }
    \cup { AllMatch(n) : n \in {3, MaxCands} }

NoMatches == << >>

RerankResponses ==
    [ kind : {"exception", "status"}, body : {"-"}, fenced : {FALSE}, matches : {NoMatches} ]
    \cup [ kind : {"ok"}, body : {"no_content", "unparseable", "object"},
           fenced : BOOLEAN, matches : {NoMatches} ]
    \cup [ kind : {"ok"}, body : {"wrapped", "bare_array"}, fenced : BOOLEAN,
           matches : MatchLists ]

InitRerank ==
    /\ EngineIdle
    /\ openai_key \in {ABSENT, "", "sk-key"}
    /\ perf = << >> /\ built = << >>
    /\ rr_in \in ShortLists \cup LongLists
    /\ rr_resp \in RerankResponses
    /\ rr_out = NotCalled
    /\ as_in = << >> /\ as_out = << >>

\* engine.py:652-704: the guard, the prompt, and the POST left in flight. The
\* coroutine that finds no key or no candidates returns (or raises) without a
\* call; the other one waits at client.post with the caller's list untouched.
Rerank_Call ==
    /\ rr_out = NotCalled
    /\ rr_out' = IF openai_key \in {ABSENT, ""} \/ rr_in = << >>
                 THEN llm_match_conditions(openai_key, rr_in, rr_resp)
                 ELSE [ raised |-> "awaiting", out |-> << >>, path |-> "await",
                        kb_after |-> rr_in ]
    /\ UNCHANGED << engineVars, contextVars, rr_in, rr_resp, assessVars >>

\* engine.py:704-794: resumed with the response rr_resp, the coroutine parses it,
\* annotates the caller's list, sorts and returns
Rerank_Response ==
    /\ rr_out # NotCalled /\ rr_out.raised = "awaiting"
    /\ rr_out' = llm_match_conditions(openai_key, rr_in, rr_resp)
    /\ UNCHANGED << engineVars, contextVars, rr_in, rr_resp, assessVars >>

SpecRerank == InitRerank /\ [][Rerank_Call \/ Rerank_Response]_vars

(***************************************************************************)
(* The effectiveness scoring on bounded contexts and metric pairs          *)
(***************************************************************************)
AssessContexts ==
    [ target_status : TargetStatus, fatigue : FatigueLevel, hr_trend : HRTrend,
      zone_key : {"absent", "true", "false"} ]

BeforeMetrics == [ pace : {0, 306, 600}, hr : {0, 150}, zone : {0, 3} ]
AfterMetrics ==
    [ pace : {0 - 100, 0, 301, 590, 594, 595, 600, 609, 610, 100000},
      hr : {0, 100, 152, 153, 100000},
      zone : {0, 2, 5} ]

NotScored == [ was_effective |-> FALSE, score |-> 0, reason |-> << >> ]

InitAssess ==
    /\ EngineIdle /\ openai_key = ABSENT
    /\ perf = << >> /\ built = << >>
    /\ rr_in = << >> /\ rr_resp = << >> /\ rr_out = << >>
    /\ as_in \in [ ctx : AssessContexts, before : BeforeMetrics, after : AfterMetrics ]
    /\ as_out = NotScored

Score ==
    /\ as_out = NotScored
    /\ as_out' = Scoring(as_in.ctx, as_in.before, as_in.after)
    /\ UNCHANGED << engineVars, contextVars, rerankVars, as_in >>

SpecAssess == InitAssess /\ [][Score]_vars

(***************************************************************************)
(* _retrieve_strategies (engine.py:389-509) with _query_kb_fallback        *)
(* (engine.py:511-541), one coroutine at a time, run up to MaxRetrievals   *)
(* times while the clock advances.                                         *)
(*                                                                         *)
(* _generate_embedding (engine.py:1214-1218) returns None for every text,  *)
(* so the branch at engine.py:425 is never taken and every retrieval       *)
(* issues the non-vector query of _query_kb_fallback (engine.py:465).      *)
(*                                                                         *)
(* perf holds the inputs, built the coroutine's frame, rr_in, rr_resp and  *)
(* rr_out the candidates, response and result of the reranking stage.      *)
(***************************************************************************)
\* engine.py:105  self._cache_ttl
cache_ttl == 300

\* retrievals per run, seconds per clock step, and the last clock value
MaxRetrievals == 2
TickSeconds == 100
MaxNow == 400

RetrievalInputs ==
    [ snap : {"A", "B", "C"}, target_distance : {5000, 21097},
      pace_deviation : {0, 200} ]

\* engine.py:408-411: distance_category and runner_level of the snapshot
RetrievalKey(p) ==
    << get_distance_category(p.target_distance),
       get_runner_level([ pace_trend |-> Snapshot(p.snap).pace_trend,
                          hr_trend |-> Snapshot(p.snap).hr_trend,
                          pace_deviation |-> p.pace_deviation ]) >>

RetrievalContext(p) ==
    build_situation_context(Snapshot(p.snap), "strategist", "medium").context

\* rows returned by the knowledge-base query
KbRows ==
    { << >>, << Cand(1, 90, 5), Cand(2, 50, 0) >>, LongList(TopN + 1, "distinct", "rising") }

\* responses of the rerank collaborator tried in a retrieval
RetrievalRerankResponses ==
    { r \in RerankResponses :
        /\ ~r.fenced
        /\ r.body \in {"-", "unparseable", "wrapped"}
        /\ r.matches \in {NoMatches, AllMatch(3)} }

\* The frame of the coroutine. posts lists the RPCs it has issued, in order
\* (the vector search would be "semantic_search_strategies_kb"). last_ok remembers the last retrieval that the
\* knowledge base answered with candidates (its key and the time it returned),
\* prev_ok is last_ok as it was when the current retrieval started.
IdleRetrieval ==
    [ pc |-> "idle", n |-> 0, key |-> << >>, calls |-> 0, started_at |-> 0,
      ret |-> "-", source |-> "-", strategies |-> << >>,
      last_ok |-> << >>, prev_ok |-> << >>, posts |-> << >> ]

\* engine.py:405, 471, 509
ReturnFallback(frame) ==
    [ frame EXCEPT !.pc = "done", !.ret = "list", !.source = "fallback",
                   !.strategies = get_fallback_strategies(RetrievalContext(perf)) ]

\* engine.py:481-502: the reranked rows, converted and returned
ReturnKb(frame, rows) ==
    [ frame EXCEPT !.pc = "done", !.ret = "list", !.source = "kb",
                   !.strategies = rows,
                   !.last_ok = << [ key |-> frame.key, at |-> now ] >> ]

InitRetrieve ==
    /\ supabase_url \in {"", "https://project.supabase.co"}
    /\ supabase_anon_key = ""
    /\ supabase_key \in {ABSENT, "", "service-key"}
    /\ openai_key \in {ABSENT, "", "sk-key"}
    /\ strategy_cache = {}
    /\ now = 0
    /\ pending_executions = [ e \in ExecIds |-> NoEntry ]
    /\ task = [ t \in Tasks |-> IdleTask ]
    /\ issued = {}
    /\ persisted = [ e \in ExecIds |-> 0 ]
    /\ ops = 0
    /\ perf \in RetrievalInputs
    /\ built = IdleRetrieval
    /\ rr_in = << >> /\ rr_resp = << >> /\ rr_out = << >>
    /\ as_in = << >> /\ as_out = << >>

retrieveFrame ==
    << supabase_url, supabase_anon_key, supabase_key, openai_key, strategy_cache,
       pending_executions, task, issued, persisted, ops, perf, assessVars >>

\* engine.py:403-420 and the POST of engine.py:518: the guard, the key, the
\* embedding (None), and the knowledge-base query left in flight
Retrieve_Call ==
    /\ built.pc \in {"idle", "done"}
    /\ built.n < MaxRetrievals
    /\ LET base == [ IdleRetrieval EXCEPT !.n = built.n + 1, !.started_at = now,
                                          !.last_ok = built.last_ok,
                                          !.prev_ok = built.last_ok ]
       IN  built' =
             CASE RestGuard = "raise" ->
                    [ base EXCEPT !.pc = "done", !.ret = "raised AttributeError" ]
               [] RestGuard = "return" -> ReturnFallback(base)
               [] OTHER ->
                    [ base EXCEPT !.pc = "await_kb", !.key = RetrievalKey(perf),
                                  !.calls = 1,
                                  !.posts = << "query_coaching_strategies_kb" >> ]
    /\ UNCHANGED << retrieveFrame, now, rerankVars >>

\* engine.py:533-541 and 469-509: the rows of the query (none on another status or
\* an exception), then the reranking up to its own outbound call
Retrieve_KbResponse(kind, rows) ==
    /\ built.pc = "await_kb"
    /\ LET kb_strategies == IF kind = "ok" THEN rows ELSE << >>
       IN  /\ rr_in' = kb_strategies
           /\ built' =
                 IF kb_strategies = << >> THEN ReturnFallback(built)
                 \* reading self.openai_key raises inside the try: caught at 503
                 ELSE IF openai_key = ABSENT THEN ReturnFallback(built)
                 ELSE IF openai_key = ""
                 THEN ReturnKb(built, FallbackRanking(kb_strategies))
                 ELSE [ built EXCEPT !.pc = "await_llm", !.calls = @ + 1,
                                     !.posts = Append(@, "chat/completions") ]
    /\ UNCHANGED << retrieveFrame, now, rr_resp, rr_out >>

\* engine.py:474-502: the reranker's result, converted and returned
Retrieve_LlmResponse(resp) ==
    /\ built.pc = "await_llm"
    /\ rr_resp' = resp
    /\ rr_out' = llm_match_conditions(openai_key, rr_in, resp)
    /\ built' = ReturnKb(built, llm_match_conditions(openai_key, rr_in, resp).out)
    /\ UNCHANGED << retrieveFrame, now, rr_in >>

Tick ==
    /\ now < MaxNow
    /\ now' = now + TickSeconds
    /\ UNCHANGED << retrieveFrame, built, rerankVars >>

NextRetrieve ==
    \/ Retrieve_Call
    \/ \E kind \in RpcKinds, rows \in KbRows : Retrieve_KbResponse(kind, rows)
    \/ \E resp \in RetrievalRerankResponses : Retrieve_LlmResponse(resp)
    \/ Tick

SpecRetrieve == InitRetrieve /\ [][NextRetrieve]_vars

(***************************************************************************)
(* _fetch_mem0_coaching_memories (engine.py:869-940): up to three searches *)
(* against the memory store, one after the other, then deduplication and   *)
(* ranking. perf holds the two attributes the coroutine reads              *)
(* (mem0_api_key, mem0_base_url; __init__ assigns neither), built is the   *)
(* coroutine's frame.                                                      *)
(***************************************************************************)
\* engine.py:893  queries[:3]
MaxQueries == 3

\* engine.py:940  unique_memories[:5]
MaxMemories == 5

\* engine.py:885-891: the first three of the five query texts
Mem0Queries ==
    << "coaching strategies that worked well", "<pace_trend> pace coaching",
       "<fatigue_level> fatigue running advice" >>

\* the memory texts tried that hold the keywords of engine.py:919-924
WorkedTexts == {"short strides helped"}
DidntWorkTexts == {"tempo talk failed"}
PreferenceTexts == {"prefers calm cues"}

\* one result of a search: "memory" and "score" (score_none for a JSON null)
Mem0Result(text, score, score_none) ==
    [ memory |-> text, score |-> score, score_none |-> score_none ]

\* three results whose texts no other search returns, scores rising with k and i
FreshResults(k) ==
    LET texts == << << "tempo talk failed", "memory 1.2", "memory 1.3" >>,
                    << "memory 2.1", "memory 2.2", "memory 2.3" >>,
                    << "memory 3.1", "memory 3.2", "memory 3.3" >> >>
    IN  IF k \in 1..MaxQueries
        THEN [ i \in 1..3 |-> Mem0Result(texts[k][i], 20 * k + 10 * i, FALSE) ]
        ELSE << >>

\* the responses tried for search k: a failure, or 200 with no result, one or two
\* results over two texts (one with a null score), or the three fresh results
Mem0Responses(k) ==
    LET pool == { Mem0Result("short strides helped", 30, FALSE),
                  Mem0Result("short strides helped", 90, FALSE),
                  Mem0Result("prefers calm cues", 90, FALSE),
                  Mem0Result("prefers calm cues", 0, TRUE) }
    IN  [ kind : {"exception", "status", "bad_body"}, results : {<< >>} ]
        \cup [ kind : {"ok"},
               results : {<< >>} \cup { << a >> : a \in pool }
                         \cup { << a, b >> : a \in pool, b \in pool }
                         \cup { FreshResults(k) } ]

\* engine.py:909-924: the Mem0CoachingMemory built from one result
Mem0CoachingMemory(r) ==
    [ memory_text |-> r.memory,
      relevance_score |-> r.score,
      score_none |-> r.score_none,
      what_worked |-> IF r.memory \in WorkedTexts THEN r.memory ELSE None,
      what_didnt_work |-> IF r.memory \in DidntWorkTexts THEN r.memory ELSE None,
      runner_preference |-> IF r.memory \in PreferenceTexts THEN r.memory ELSE None ]

\* engine.py:935: sorted() compares the scores with <, and None is not comparable
\* (not even with None); a single memory is never compared
Mem0SortRaises(memories) ==
    /\ Len(memories) >= 2
    /\ \E i \in 1..Len(memories) : memories[i].score_none

DeduplicateNone(sorted) == sorted

\* engine.py:933-938: the first memory of each text, in the order of the list
RECURSIVE Deduplicate(_)
Deduplicate(sorted) ==
    IF sorted = << >> THEN << >>
    ELSE LET rest == Deduplicate(SubSeq(sorted, 1, Len(sorted) - 1))
             m == sorted[Len(sorted)]
         IN  IF \E i \in 1..Len(rest) : rest[i].memory_text = m.memory_text
             THEN rest ELSE Append(rest, m)

IdleFetch ==
    [ pc |-> "idle", query |-> 0, posts |-> << >>, failed |-> 0,
      memories |-> << >>, ret |-> "-", out |-> << >> ]

\* engine.py:931-940: what follows the try block
Mem0Return(frame) ==
    IF Mem0SortRaises(frame.memories)
    THEN [ frame EXCEPT !.pc = "done", !.ret = "raised TypeError" ]
    ELSE [ frame EXCEPT !.pc = "done", !.ret = "list",
             !.out = Take(Deduplicate(SortDesc(frame.memories, "relevance")),
                          MaxMemories) ]

\* engine.py:893-905: the next query is posted, or the loop is over
Mem0NextQuery(frame) ==
    IF frame.query < MaxQueries
    THEN [ frame EXCEPT !.pc = "await_search", !.query = @ + 1,
                        !.posts = Append(@, Mem0Queries[frame.query + 1]) ]
    ELSE Mem0Return(frame)

InitMem0 ==
    /\ EngineIdle /\ openai_key = ABSENT
    /\ perf \in [ mem0_api_key : {ABSENT, "", "m0-key"},
                  mem0_base_url : {ABSENT, "https://api.mem0.ai/v1"} ]
    /\ built = IdleFetch
    /\ rr_in = << >> /\ rr_resp = << >> /\ rr_out = << >>
    /\ as_in = << >> /\ as_out = << >>

\* engine.py:876-895: the guard, then the first search left in flight. Reading
\* mem0_api_key raises outside the try; reading mem0_base_url raises inside it.
Mem0_Call ==
    /\ built.pc = "idle"
    /\ built' =
         CASE perf.mem0_api_key = ABSENT ->
                [ built EXCEPT !.pc = "done", !.ret = "raised AttributeError" ]
           [] perf.mem0_api_key = "" ->
                [ built EXCEPT !.pc = "done", !.ret = "list" ]
           [] perf.mem0_base_url = ABSENT -> Mem0Return(built)
           [] OTHER -> Mem0NextQuery(built)
    /\ UNCHANGED << engineVars, perf, rerankVars, assessVars >>

\* engine.py:894-929: the response of one search. An exception (of the call or of
\* reading the body) ends the loop and keeps the memories collected so far; a
\* status other than 200 is skipped.
Mem0_Response(resp) ==
    /\ built.pc = "await_search"
    /\ built' =
         CASE resp.kind \in {"exception", "bad_body"} ->
                Mem0Return([ built EXCEPT !.failed = @ + 1 ])
           [] resp.kind = "status" ->
                Mem0NextQuery([ built EXCEPT !.failed = @ + 1 ])
           [] OTHER ->
                Mem0NextQuery(
                  [ built EXCEPT !.memories =
                      @ \o [ i \in 1..Len(resp.results) |->
                               Mem0CoachingMemory(resp.results[i]) ] ])
    /\ UNCHANGED << engineVars, perf, rerankVars, assessVars >>

NextMem0 ==
    \/ Mem0_Call
    \/ \E resp \in Mem0Responses(built.query) : Mem0_Response(resp)

SpecMem0 == InitMem0 /\ [][NextMem0]_vars

(***************************************************************************)
(* _select_and_adapt_strategy (engine.py:983-1094) and                     *)
(* _select_best_strategy_simple (engine.py:1173-1208).                     *)
(*                                                                         *)
(* A text is a record of its characters and its length, so that a slice    *)
(* [:n] is the same characters with the length cut to n. A candidate is a  *)
(* CoachingStrategy reduced to id, strategy_name, strategy_text,           *)
(* success_rate and similarity_score (hundredths), tags and source. perf   *)
(* holds the arguments (situation_tags, strategies, mem0_memories), built  *)
(* the coroutine's frame.                                                  *)
(***************************************************************************)
Text(chars, len) == [ chars |-> chars, len |-> len ]

\* text[:n]
Slice(text, n) == [ text EXCEPT !.len = Min2(@, n) ]

Strategy(id, name, text, sr, sim, tags, source) ==
    [ id |-> id, strategy_name |-> name, strategy_text |-> text,
      success_rate |-> sr, similarity_score |-> sim, tags |-> tags,
      source |-> source ]

\* engine.py:805-847: an entry of the static table (rates and similarity default to 0)
StaticStrategy(id, len, tags) ==
    Strategy(id, FallbackName(id), Text(FallbackText(id), len), 0, 0, tags, "fallback")

\* candidates tried: rows converted at engine.py:481-497 (source "kb", or
\* "kb_vector"), one built with the dataclass default source "database"
\* (models.py:237), and two entries of the static table
StrategyPool ==
    { Strategy("k1", "Tempo Hold", Text("Hold tempo to the next marker.", 30),
               0, 70, {}, "kb"),
      Strategy("k2", "Surge", Text("Surge 20 seconds, then settle.", 30),
               90, 90, {"pace_decline"}, "kb"),
      Strategy("k3", "Breathing Reset", Text("Two in, two out.", 16),
               50, 70, {"pace_decline", "hr_rising"}, "kb_vector"),
      Strategy("d1", "Tempo Hold", Text("Hold tempo to the next marker.", 30),
               0, 70, {}, "database"),
      StaticStrategy("fallback-1", 84, {"cardiac_drift", "hr_rising", "pace_decline"}),
      StaticStrategy("fallback-default", 71, {"pace_stable"}) }

\* longest list of candidates tried
MaxStrategies == 3

\* the arguments tried: lists of candidates without repetition, the tags of three
\* situations, and no or four memory texts
SelectInputs ==
    LET pairs == { l \in { << a, b >> : a \in StrategyPool, b \in StrategyPool } :
                     l[1] # l[2] }
        triples == { l \in { << a, b, c >> : a \in StrategyPool, b \in StrategyPool,
                                             c \in StrategyPool } :
                       l[1] # l[2] /\ l[1] # l[3] /\ l[2] # l[3] }
        lists == {<< >>} \cup { << a >> : a \in StrategyPool } \cup pairs \cup triples
    IN  [ situation_tags :
            { << >>,
              << "pace_stable", "target_on_track" >>,
              << "pace_decline", "hr_rising", "target_behind", "fatigue_moderate",
                 "cardiac_drift", "recovery_needed" >> },
          strategies : { l \in lists : Len(l) <= MaxStrategies },
          mem0_memories : { << >>, << "m1", "m2", "m3", "m4" >> } ]

\* engine.py:1192-1197, in thousandths
SimpleScore(st, situation_tags) ==
    4 * st.success_rate + 3 * st.similarity_score
    + 100 * Cardinality(st.tags \cap { situation_tags[i] : i \in 1..Len(situation_tags) })
    + (IF st.source = "database" THEN 200 ELSE 100)

\* max(): the first element with the greatest key
BestIndex(strategies, situation_tags) ==
    CHOOSE i \in 1..Len(strategies) :
        /\ \A j \in 1..Len(strategies) :
             SimpleScore(strategies[j], situation_tags)
               <= SimpleScore(strategies[i], situation_tags)
        /\ \A j \in 1..(i - 1) :
             SimpleScore(strategies[j], situation_tags)
               < SimpleScore(strategies[i], situation_tags)

DefaultDirective == Text("Maintain current pace. Stay focused. You're doing well.", 55)

\* engine.py:1173-1208
select_best_strategy_simple(situation_tags, strategies, mem0_memories) ==
    IF strategies = << >>
    THEN [ strategy_text |-> DefaultDirective,
           strategy_name |-> "Default Strategy",
           source_strategies |-> << >>,
           mem0_insights_used |-> << >>,
           confidence_score |-> 50,
           priority_tags |-> Take(situation_tags, 3) ]
    ELSE LET best_strategy == strategies[BestIndex(strategies, situation_tags)]
         IN  [ strategy_text |-> best_strategy.strategy_text,
               strategy_name |-> best_strategy.strategy_name,
               source_strategies |-> << best_strategy.id >>,
               mem0_insights_used |-> Take(mem0_memories, 2),
               confidence_score |-> 60,
               priority_tags |-> Take(situation_tags, 3) ]

\* the ids of strategies[:3]
FirstThreeIds(strategies) == [ i \in 1..Min2(3, Len(strategies)) |-> strategies[i].id ]

\* The response of the chat completion:
\*   kind "exception" (timeout included), "status" (not 200), or "ok" with
\*   body "no_content"  the choices/message/content path is missing
\*   body "text"        content is not JSON
\*   body "object"      content is a JSON object (strategy_text, strategy_name
\*                      and confidence_score present or not; strategy_name
\*                      is << >> when the object has no such key)
\*   body "other_json"  content is JSON but not an object (array, string, null)
\*   fence "none", "json" or "plain": whether content wraps its payload in a
\*   block fenced by three backquotes (followed by json or not); raw is the
\*   whole content and inner the payload
SelectResponses ==
    LET LongContent == Text("Push the pace to the bridge, then ...", 500)
        FencedContent == Text("Sure! <fence> ... <fence> hope it helps", 260)
        FencePayload == Text(" ... ", 210)
    IN
    [ kind : {"exception", "status"}, body : {"-"}, fence : {"none"},
      raw : {Text("", 0)}, inner : {Text("", 0)},
      has_strategy_text : {FALSE}, strategy_name : {<< >>},
           confidence_score : {<< >>} ]
    \cup [ kind : {"ok"}, body : {"no_content"}, fence : {"none"},
           raw : {Text("", 0)}, inner : {Text("", 0)},
           has_strategy_text : {FALSE}, strategy_name : {<< >>},
           confidence_score : {<< >>} ]
    \cup [ kind : {"ok"}, body : {"text", "other_json"}, fence : {"none"},
           raw : {Text("Push now", 8), LongContent}, inner : {Text("", 0)},
           has_strategy_text : {FALSE}, strategy_name : {<< >>},
           confidence_score : {<< >>} ]
    \cup [ kind : {"ok"}, body : {"text", "other_json"}, fence : {"json", "plain"},
           raw : {FencedContent}, inner : {FencePayload},
           has_strategy_text : {FALSE}, strategy_name : {<< >>},
           confidence_score : {<< >>} ]
    \cup [ kind : {"ok"}, body : {"object"}, fence : {"none", "json"},
           raw : {FencedContent}, inner : {FencePayload},
           has_strategy_text : BOOLEAN,
           strategy_name : {<< >>, << "Cadence Reset" >>},
           confidence_score : {<< >>, << 90 >>, << 170 >>} ]

\* engine.py:1057-1060: the payload of the fenced block, or the content itself
StripFence(resp) == IF resp.fence = "none" THEN resp.raw ELSE resp.inner

\* engine.py:1064-1074
ParsedOutput(resp, situation_tags, strategies, mem0_memories) ==
    [ strategy_text |-> IF resp.has_strategy_text
                        THEN Text("<parsed strategy_text>", 40)
                        ELSE Text("Maintain current effort.", 24),
      strategy_name |-> IF IsNone(resp.strategy_name) THEN "Adaptive Strategy"
                        ELSE Val(resp.strategy_name),
      source_strategies |-> FirstThreeIds(strategies),
      mem0_insights_used |-> Take(mem0_memories, 3),
      confidence_score |-> IF IsNone(resp.confidence_score) THEN 70
                           ELSE Val(resp.confidence_score),
      priority_tags |-> Take(situation_tags, 3) ]

\* engine.py:1076-1088
RawTextOutput(resp, situation_tags, strategies, mem0_memories) ==
    [ strategy_text |-> Slice(StripFence(resp), 200),
      strategy_name |-> "Adaptive Strategy",
      source_strategies |-> FirstThreeIds(strategies),
      mem0_insights_used |-> Take(mem0_memories, 3),
      confidence_score |-> 60,
      priority_tags |-> Take(situation_tags, 3) ]

IdleSelect ==
    [ pc |-> "idle", calls |-> 0, ret |-> "-", path |-> "-",
      output |-> [ strategy_text |-> Text("", 0), strategy_name |-> "",
                   source_strategies |-> << >>, mem0_insights_used |-> << >>,
                   confidence_score |-> 0, priority_tags |-> << >> ] ]

\* engine.py:995 and 1094
ReturnSimple(frame) ==
    [ frame EXCEPT !.pc = "done", !.ret = "output", !.path = "simple",
        !.output = select_best_strategy_simple(perf.situation_tags, perf.strategies,
                                               perf.mem0_memories) ]

InitSelect ==
    /\ EngineIdle
    /\ openai_key \in {ABSENT, "", "sk-key"}
    /\ perf \in SelectInputs
    /\ built = IdleSelect
    /\ rr_in = << >> /\ rr_resp = << >> /\ rr_out = << >>
    /\ as_in = << >> /\ as_out = << >>

\* engine.py:993-1003: the guard (outside the try), the prompt, and the chat
\* completion left in flight
Select_Call ==
    /\ built.pc = "idle"
    /\ built' =
         CASE openai_key = ABSENT ->
                [ built EXCEPT !.pc = "done", !.ret = "raised AttributeError" ]
           [] openai_key = "" -> ReturnSimple(built)
           [] OTHER -> [ built EXCEPT !.pc = "await_llm", !.calls = 1 ]
    /\ UNCHANGED << engineVars, perf, rerankVars, assessVars >>

\* engine.py:1051-1094. Only json.JSONDecodeError takes the raw-text return; any
\* other exception (a missing content path, parsed.get on a list or a string)
\* is caught at line 1090 and the simple selection is returned.
Select_Response(resp) ==
    /\ built.pc = "await_llm"
    /\ rr_resp' = resp
    /\ built' =
         CASE resp.kind # "ok" -> ReturnSimple(built)
           [] resp.body \in {"no_content", "other_json"} -> ReturnSimple(built)
           [] resp.body = "text" ->
                [ built EXCEPT !.pc = "done", !.ret = "output", !.path = "raw_text",
                    !.output = RawTextOutput(resp, perf.situation_tags,
                                             perf.strategies, perf.mem0_memories) ]
           [] OTHER ->
                [ built EXCEPT !.pc = "done", !.ret = "output", !.path = "parsed",
                    !.output = ParsedOutput(resp, perf.situation_tags,
                                            perf.strategies, perf.mem0_memories) ]
    /\ UNCHANGED << engineVars, perf, rr_in, rr_out, assessVars >>

NextSelect ==
    \/ Select_Call
    \/ \E resp \in SelectResponses : Select_Response(resp)

SpecSelect == InitSelect /\ [][NextSelect]_vars

(***************************************************************************)
(* Claims                                                                  *)
(***************************************************************************)
IsOp(t, op) == task[t].op = op
Done(t, op) == task[t].op = op /\ task[t].pc = "done"

\* C1: when the engine is configured, a get_adaptive_strategy whose outbound call
\* was issued returns an AdaptiveStrategyOutput, and raises nothing, whatever the
\* outcome of the call (success, other status, malformed body, exception, timeout).
C1_CollaboratorFailureAbsorbed ==
    \A t \in Tasks :
        (Done(t, "get_adaptive_strategy") /\ task[t].calls = 1)
        => /\ task[t].ret = "output"
           /\ task[t].output # NoOutput

\* a configured call whose collaborator timed out has returned an output
C1_Witness ==
    \E t \in Tasks :
        /\ Done(t, "get_adaptive_strategy")
        /\ supabase_url # "" /\ supabase_anon_key # ""
        /\ task[t].resp = "timeout"
        /\ task[t].ret = "output"

\* C2: with the URL or the key empty, get_adaptive_strategy raises the configuration
\* error before any work: no context is built, no call is issued, no output is
\* returned, and the step leaves the strategy cache and the pending store as they were.
C2_Raised ==
    \A t \in Tasks :
        ( /\ IsOp(t, "get_adaptive_strategy")
          /\ (supabase_url = "" \/ supabase_anon_key = "") )
        => /\ task[t].pc = "done"
           /\ task[t].ret = "raised ValueError"
           /\ ~task[t].ctx_built
           /\ task[t].calls = 0
           /\ task[t].output = NoOutput

C2_Frame ==
    (\E t \in Tasks : task'[t].op = "get_adaptive_strategy"
                      /\ task'[t].ret = "raised ValueError"
                      /\ task'[t] # task[t])
    => /\ strategy_cache' = strategy_cache
       /\ pending_executions' = pending_executions

C2_ConfigurationErrorBeforeWork == []C2_Raised /\ [][C2_Frame]_vars

\* the configuration error was raised while an execution was pending
C2_Witness ==
    \E t \in Tasks :
        /\ Done(t, "get_adaptive_strategy")
        /\ task[t].ret = "raised ValueError"
        /\ PendingIds # {}

\* C3: at the moment get_adaptive_strategy returns an output with an execution id,
\* the pending store holds an entry under that id.
C3_Return ==
    \A t \in Tasks :
        ( /\ task[t].op = "get_adaptive_strategy" /\ task[t].pc = "await"
          /\ task'[t].pc = "done" /\ task'[t].ret = "output"
          /\ task'[t].output.execution_id # None )
        => pending_executions'[task'[t].output.execution_id].present

C3_ReturnedIdIsPending == [][C3_Return]_vars

\* C4: once an outcome was recorded for an execution id the collaborator handed
\* out, the id is not pending, and no outcome call started later succeeds for it:
\* record_strategy_outcome returns False and the assessor answers "not found".
C4_SecondOutcomeCallFails ==
    /\ \A e \in ExecIds : persisted[e] > 0 => e \notin PendingIds
    /\ \A t \in Tasks :
         (task[t].pc = "done" /\ task[t].after_recorded /\ task[t].eid \in issued)
         => /\ IsOp(t, "record_strategy_outcome") => task[t].ret # "True"
            /\ IsOp(t, "assess_strategy_effectiveness")
                 => task[t].result = NotFoundResult

\* C5: of two assessments of the same pending execution id, at most one scores
\* and has its outcome accepted by the collaborator.
C5_ExactlyOneAssessorPersists ==
    \A t1 \in Tasks, t2 \in Tasks :
        ( /\ t1 # t2
          /\ Done(t1, "assess_strategy_effectiveness")
          /\ Done(t2, "assess_strategy_effectiveness")
          /\ task[t1].eid = task[t2].eid
          /\ task[t1].found /\ task[t2].found )
        => ~(task[t1].persist_ok /\ task[t2].persist_ok)

\* C6: an assessment of an id that is not pending returns (False, 0.0, "Execution
\* not found") as a value, without scoring and without an outbound call, and the
\* step leaves the pending store and the collaborator's records as they were.
C6_Result ==
    \A t \in Tasks :
        (IsOp(t, "assess_strategy_effectiveness") /\ ~task[t].present_at_call)
        => /\ task[t].pc = "done"
           /\ task[t].ret = "tuple"
           /\ task[t].result = NotFoundResult
           /\ ~task[t].found
           /\ task[t].calls = 0
           /\ ~task[t].persist_ok

C6_Frame ==
    (\E t \in Tasks : /\ task[t].pc # "await"
                      /\ task'[t].op = "assess_strategy_effectiveness"
                      /\ ~task'[t].present_at_call
                      /\ task'[t] # task[t])
    => /\ pending_executions' = pending_executions
       /\ persisted' = persisted

C6_UnknownIdIsNotFound == []C6_Result /\ [][C6_Frame]_vars

\* an unknown id was assessed while another execution was pending
C6_Witness ==
    \E t \in Tasks :
        /\ Done(t, "assess_strategy_effectiveness")
        /\ ~task[t].present_at_call
        /\ task[t].result = NotFoundResult
        /\ PendingIds # {}

\* C7: the score computed by the assessor lies in [0, 1] (0..100 hundredths) for
\* every recorded context and every pair of metrics.
C7_ScoreWithinUnitInterval ==
    as_out # NotScored => (as_out.score >= 0 /\ as_out.score <= 100)

\* three conditions triggered together: the raw sum is 1.2 and the score is 1.0
C7_Witness ==
    /\ as_out # NotScored
    /\ RawScore(as_in.ctx, as_in.before, as_in.after) > 100
    /\ as_out.score = 100

\* C8: whatever the candidates and the response, the reranker returns at most 8
\* candidates, each one of the input, none more often than in the input.
Occurrences(seq, id) == Cardinality({ i \in 1..Len(seq) : seq[i].id = id })

C8_RerankWithinInput ==
    rr_out.raised = "none"
    => /\ Len(rr_out.out) <= 8
       /\ \A i \in 1..Len(rr_out.out) :
            /\ \E j \in 1..Len(rr_in) : rr_in[j].id = rr_out.out[i].id
            /\ Occurrences(rr_out.out, rr_out.out[i].id)
                 <= Occurrences(rr_in, rr_out.out[i].id)

\* more than 8 candidates matched, and 8 came back
C8_Witness ==
    /\ rr_out.raised = "none" /\ rr_out.path = "matched"
    /\ Len(rr_in) > 8
    /\ Len(FilterMatched(rr_in, rr_resp.matches)) > 8
    /\ Len(rr_out.out) = 8

\* C9: when the collaborator call of a configured get_adaptive_strategy fails, the
\* output is a strategy of the static fallback set of the situation, with
\* confidence 0.5 and no execution id.
StaticSetOf(name) ==
    get_fallback_strategies(
        build_situation_context(Snapshot(name), "strategist", "medium").context)

C9_FallbackFromStaticSet ==
    \A t \in Tasks :
        ( /\ Done(t, "get_adaptive_strategy") /\ task[t].ret = "output"
          /\ task[t].resp \in {"status", "exception", "timeout"} )
        => /\ \E i \in 1..Len(StaticSetOf(task[t].snap)) :
                /\ task[t].output.strategy_name = FallbackName(StaticSetOf(task[t].snap)[i])
                /\ task[t].output.strategy_text = FallbackText(StaticSetOf(task[t].snap)[i])
           /\ task[t].output.confidence = 50
           /\ task[t].output.execution_id = None

\* C10: _build_situation_context returns a context for every PerformanceAnalysis.
C10_ContextAlwaysBuilt ==
    built # NotCalled => built.raised = "none"

\* C11: in every context built, zone_too_high is true exactly when the zone-4 and
\* zone-5 percentages (a missing key counting as 0) sum to strictly more than 25.
C11_Zone45(z) ==
    (IF 4 \in DOMAIN z THEN z[4] ELSE 0) + (IF 5 \in DOMAIN z THEN z[5] ELSE 0)

C11_ZoneTooHighStrict ==
    (built # NotCalled /\ built.raised = "none")
    => (built.context.zone_too_high <=> C11_Zone45(perf.p.zone_percentages) > 25)

\* a context built from zone percentages summing to exactly 25: the flag is false
C11_Witness ==
    /\ built # NotCalled /\ built.raised = "none"
    /\ C11_Zone45(perf.p.zone_percentages) = 25
    /\ ~built.context.zone_too_high

\* C12: every non-negative target distance maps to the category of its band:
\* below 3000 m casual, 3000..5500 5k, 5501..11000 10k, 11001..22000 half,
\* above 22000 full.
C12_Band(m) ==
    CASE m < 3000 -> "casual"
      [] m >= 3000 /\ m <= 5500 -> "5k"
      [] m >= 5501 /\ m <= 11000 -> "10k"
      [] m >= 11001 /\ m <= 22000 -> "half"
      [] m > 22000 -> "full"

C12_DistanceCategoryBands ==
    built # NotCalled
    => /\ built.distance_category \in {"casual", "5k", "10k", "half", "full"}
       /\ built.distance_category = C12_Band(perf.target_distance)

\* the inclusive upper bound of the 5k band
C12_Witness ==
    /\ built # NotCalled
    /\ perf.target_distance = 5500
    /\ built.distance_category = "5k"

\* C13: the runner level is one of advanced, intermediate, beginner; no snapshot
\* meets both the advanced conditions (pace stable, HR stable, |deviation| < 3.0)
\* and the beginner conditions (pace erratic, or HR spiking, or |deviation| > 15.0);
\* and when the advanced conditions hold the level is advanced.
C13_Magnitude(x) == IF x < 0 THEN 0 - x ELSE x

C13_AdvancedConditions ==
    /\ perf.pace_trend = "stable" /\ perf.hr_trend = "stable"
    /\ C13_Magnitude(perf.pace_deviation) < 30

C13_BeginnerConditions ==
    \/ perf.pace_trend = "erratic" \/ perf.hr_trend = "spiking"
    \/ C13_Magnitude(perf.pace_deviation) > 150

C13_RunnerLevelExclusive ==
    built # NotCalled
    => /\ built.runner_level \in {"advanced", "intermediate", "beginner"}
       /\ ~(C13_AdvancedConditions /\ C13_BeginnerConditions)
       /\ C13_AdvancedConditions => built.runner_level = "advanced"

\* a steady runner 2.9 % off the target pace is advanced
C13_Witness ==
    /\ built # NotCalled
    /\ C13_AdvancedConditions /\ perf.pace_deviation = 0 - 29
    /\ built.runner_level = "advanced"

\* C14: the static fallback set holds the cardiac-drift strategy iff cardiac_drift,
\* the cadence reset iff the pace is declining, the active recovery iff fatigue is
\* high or severe, the injury prevention iff injury_risk, and the default iff none
\* of the four applies; it is never empty.
C14_Has(name) ==
    \E i \in 1..Len(built.strategies) : FallbackName(built.strategies[i]) = name

C14_FallbackSetByFlags ==
    built # NotCalled
    => /\ C14_Has("Cardiac Drift Management") <=> perf.cardiac_drift
       /\ C14_Has("Cadence Reset") <=> perf.pace_trend = "declining"
       /\ C14_Has("Active Recovery") <=> perf.fatigue_level \in {"high", "severe"}
       /\ C14_Has("Injury Prevention") <=> perf.injury_risk
       /\ C14_Has("Maintain Pace")
            <=> ~( \/ perf.cardiac_drift \/ perf.pace_trend = "declining"
                   \/ perf.fatigue_level \in {"high", "severe"} \/ perf.injury_risk )
       /\ Len(built.strategies) >= 1
       /\ C14_Has("Maintain Pace") => Len(built.strategies) = 1

\* injury risk with severe fatigue: both directives and no default
C14_Witness ==
    /\ built # NotCalled
    /\ perf.injury_risk /\ perf.fatigue_level = "severe"
    /\ ~perf.cardiac_drift /\ perf.pace_trend = "stable"
    /\ built.strategies = << "fallback-3", "fallback-4" >>

\* C15: in every context built, cardiac_drift is (pace declining and HR rising or
\* spiking) and recovery_needed is (fatigue high or severe, or zone_too_high, or
\* cardiac_drift).
C15_DriftAndRecovery ==
    (built # NotCalled /\ built.raised = "none")
    => /\ built.context.cardiac_drift
            <=> ( /\ perf.p.pace_trend = "declining"
                  /\ perf.p.hr_trend \in {"rising", "spiking"} )
       /\ built.context.recovery_needed
            <=> ( \/ perf.p.fatigue_level \in {"high", "severe"}
                  \/ built.context.zone_too_high
                  \/ built.context.cardiac_drift )

\* cardiac drift alone asks for recovery: zones in range and moderate fatigue
C15_Witness ==
    /\ built # NotCalled /\ built.raised = "none"
    /\ built.context.cardiac_drift /\ ~built.context.zone_too_high
    /\ perf.p.fatigue_level = "moderate"
    /\ built.context.recovery_needed

\* C16: in every context built, push_possible is true exactly when fatigue is none
\* or low, the HR trend is stable, and the current or the maximum heart rate is
\* unknown or current/max is strictly below 0.85.
C16_Headroom ==
    \/ perf.p.current_hr = << >>
    \/ perf.p.max_hr = << >>
    \/ 100 * perf.p.current_hr[1] < 85 * perf.p.max_hr[1]

C16_PushPossibleStrict ==
    (built # NotCalled /\ built.raised = "none")
    => ( built.context.push_possible
           <=> ( /\ perf.p.fatigue_level \in {"none", "low"}
                 /\ perf.p.hr_trend = "stable"
                 /\ C16_Headroom ) )

\* a fresh runner with a steady heart rate at exactly 85 % of the maximum
C16_Witness ==
    /\ built # NotCalled /\ built.raised = "none"
    /\ perf.p.fatigue_level = "low" /\ perf.p.hr_trend = "stable"
    /\ perf.p.current_hr = << 170 >> /\ perf.p.max_hr = << 200 >>
    /\ ~built.context.push_possible

\* C18: the tag list of every context built is a pace-trend tag, a heart-rate-trend
\* tag, a target-status tag and a fatigue tag, in that order, followed by one tag
\* per true derived flag in the order cardiac_drift, zone_too_high, injury_risk,
\* form_breakdown, push_possible, recovery_needed; no tag occurs twice.
C18_PaceTags == {"pace_decline", "pace_stable", "pace_improving", "pace_erratic"}
C18_HRTags == {"hr_rising", "hr_stable", "hr_spiking", "hr_recovering"}
C18_TargetTags == {"target_ahead", "target_on_track", "target_behind"}
C18_FatigueTags == {"fatigue_none", "fatigue_low", "fatigue_moderate", "fatigue_high"}

C18_FlagTags(c) ==
    (IF c.cardiac_drift THEN << "cardiac_drift" >> ELSE << >>)
    \o (IF c.zone_too_high THEN << "zone_too_high" >> ELSE << >>)
    \o (IF c.injury_risk THEN << "injury_risk" >> ELSE << >>)
    \o (IF c.form_breakdown THEN << "form_breakdown" >> ELSE << >>)
    \o (IF c.push_possible THEN << "push_possible" >> ELSE << >>)
    \o (IF c.recovery_needed THEN << "recovery_needed" >> ELSE << >>)

C18_TagListLayout ==
    (built # NotCalled /\ built.raised = "none")
    => LET tags == built.situation_tags
       IN  /\ Len(tags) >= 4
           /\ tags[1] \in C18_PaceTags
           /\ tags[2] \in C18_HRTags
           /\ tags[3] \in C18_TargetTags
           /\ tags[4] \in C18_FatigueTags
           /\ SubSeq(tags, 5, Len(tags)) = C18_FlagTags(built.context)
           /\ \A i \in 1..Len(tags), j \in 1..Len(tags) : tags[i] = tags[j] => i = j

\* C19: every output returned by get_adaptive_strategy has a confidence within
\* [0, 1], at most 3 priority tags, at most 3 source strategies and at most 3
\* personalization snippets.
C19_OutputWithinBounds ==
    \A t \in Tasks :
        (Done(t, "get_adaptive_strategy") /\ task[t].ret = "output")
        => /\ task[t].output.confidence >= 0
           /\ task[t].output.confidence <= 100
           /\ Len(task[t].output.priority_tags) <= 3
           /\ Len(task[t].output.source_strategies) <= 3
           /\ Len(task[t].output.mem0_insights_used) <= 3

\* C20: a retrieval that the knowledge base answered with candidates has stored
\* them in the strategy cache under its (distance_category, runner_level) key; and
\* a retrieval started less than 300 s after such a retrieval for the same key
\* issues no collaborator call.
C20_CacheConsultedFirst ==
    /\ (built.pc = "done" /\ built.source = "kb")
         => \E e \in strategy_cache : e.key = built.key
    /\ ( /\ built.pc \in {"await_kb", "await_llm", "done"}
         /\ built.key # << >>
         /\ built.prev_ok # << >>
         /\ built.prev_ok[1].key = built.key
         /\ built.started_at - built.prev_ok[1].at < 300 )
         => built.calls = 0

\* C21: a retrieval issues the vector similarity search first; the non-vector
\* query comes only after the vector search; and the static fallback set is
\* returned by a configured retrieval only after the non-vector query failed or
\* returned no row.
C21_VectorSearchFirst ==
    /\ built.posts # << >> => built.posts[1] = "semantic_search_strategies_kb"
    /\ \A i \in 1..Len(built.posts) :
          built.posts[i] = "query_coaching_strategies_kb"
          => (i > 1 /\ built.posts[i - 1] = "semantic_search_strategies_kb")
    /\ (built.pc = "done" /\ built.source = "fallback" /\ built.posts # << >>)
          => rr_in = << >>

\* C22: every finished retrieval has returned a candidate list, whatever the
\* configuration and whatever the collaborators answered; a retrieval whose
\* knowledge-base query failed has returned the static fallback set.
C22_NoErrorReachesCaller ==
    built.pc = "done"
    => /\ built.ret = "list"
       /\ (built.posts # << >> /\ rr_in = << >>) => built.source = "fallback"

\* C23: when the reranker has no key, its call fails, or the content cannot be
\* parsed into usable match records, it returns the candidates it was given,
\* unmodified: all of them when there are at most 8, otherwise 8 of them, in
\* descending (success_rate, times_used) order, and no candidate left out ranks
\* above a returned one.
C23_Unusable ==
    \/ openai_key = ""
    \/ rr_resp.kind # "ok"
    \/ rr_resp.body \in {"no_content", "unparseable"}
    \/ /\ rr_resp.body = "wrapped"
       /\ \/ LookupRaises(rr_resp.matches)
          \/ SortRaises(FilterMatched(rr_in, rr_resp.matches))

C23_Key(s) == << s.success_rate, s.times_used >>

C23_Count(seq, x) == Cardinality({ i \in 1..Len(seq) : seq[i] = x })

C23_FallbackUnmodifiedTop8 ==
    (rr_out.raised = "none" /\ C23_Unusable)
    => LET out == rr_out.out
       IN  /\ rr_out.kb_after = rr_in
           /\ Len(out) = Min2(8, Len(rr_in))
           /\ \A i \in 1..Len(out) :
                /\ C23_Count(rr_in, out[i]) >= 1
                /\ C23_Count(out, out[i]) <= C23_Count(rr_in, out[i])
           /\ \A i \in 1..(Len(out) - 1) :
                ~TupleGT(C23_Key(out[i + 1]), C23_Key(out[i]))
           /\ \A j \in 1..Len(rr_in) :
                C23_Count(out, rr_in[j]) < C23_Count(rr_in, rr_in[j])
                => ~TupleGT(C23_Key(rr_in[j]), C23_Key(out[Len(out)]))

\* C24: when the content is a JSON object whose match records are usable (each
\* record with match=true has an id and no null score), the result is made of
\* the candidates whose id is listed with match=true, each with the listed
\* score: all of them when there are at most 8, otherwise 8 of them, in
\* descending (match_score, success_rate, times_used) order, no matched
\* candidate left out ranking above a returned one. A candidate that is absent
\* from the response or listed only with match=false is not returned.
C24_Parsed ==
    /\ rr_out.raised = "none"
    /\ openai_key = "sk-key"
    /\ rr_in # << >>
    /\ rr_resp.kind = "ok"
    /\ rr_resp.body \in {"wrapped", "object"}
    /\ \A i \in 1..Len(rr_resp.matches) :
         rr_resp.matches[i].match
         => (rr_resp.matches[i].has_id /\ ~rr_resp.matches[i].score_none)

C24_Listed(id) ==
    \E i \in 1..Len(rr_resp.matches) :
        rr_resp.matches[i].match /\ rr_resp.matches[i].id = id

C24_ScoreOf(id) ==
    LET m == rr_resp.matches[LookupIndex(rr_resp.matches, id)]
    IN  IF m.has_score THEN m.score ELSE 70

C24_Same(a, b) ==
    a.id = b.id /\ a.success_rate = b.success_rate /\ a.times_used = b.times_used

C24_Kept == { j \in 1..Len(rr_in) : C24_Listed(rr_in[j].id) }

C24_Key(s) == << C24_ScoreOf(s.id), s.success_rate, s.times_used >>

C24_ExactlyTheMatched ==
    C24_Parsed
    => LET out == rr_out.out
       IN  /\ Len(out) = Min2(8, Cardinality(C24_Kept))
           /\ \A i \in 1..Len(out) :
                /\ C24_Listed(out[i].id)
                /\ out[i].has_match_score
                /\ out[i].match_score = C24_ScoreOf(out[i].id)
                /\ Cardinality({ k \in 1..Len(out) : C24_Same(out[k], out[i]) })
                     <= Cardinality({ j \in C24_Kept : C24_Same(rr_in[j], out[i]) })
           /\ \A i \in 1..(Len(out) - 1) :
                ~TupleGT(C24_Key(out[i + 1]), C24_Key(out[i]))
           /\ \A j \in C24_Kept :
                Cardinality({ k \in 1..Len(out) : C24_Same(out[k], rr_in[j]) })
                  < Cardinality({ k \in C24_Kept : C24_Same(rr_in[k], rr_in[j]) })
                => ~TupleGT(C24_Key(rr_in[j]), C24_Key(out[Len(out)]))

\* one candidate is listed with match=true and returned, another is listed with
\* match=false and is not in the result
C24_Witness ==
    /\ C24_Parsed
    /\ rr_out.out # << >>
    /\ \E j \in 1..Len(rr_in) :
         /\ ~C24_Listed(rr_in[j].id)
         /\ \E i \in 1..Len(rr_resp.matches) :
              ~rr_resp.matches[i].match /\ rr_resp.matches[i].id = rr_in[j].id
         /\ \A k \in 1..Len(rr_out.out) : rr_out.out[k].id # rr_in[j].id

\* C25: a response whose content is an object with a matches list or a bare
\* array of usable match records, fenced or not, yields the match-filtered
\* ranking of the candidates.
C25_AllShapesAccepted ==
    ( /\ rr_out.raised = "none"
      /\ openai_key = "sk-key"
      /\ rr_in # << >>
      /\ rr_resp.kind = "ok"
      /\ rr_resp.body \in {"wrapped", "bare_array"}
      /\ ~LookupRaises(rr_resp.matches)
      /\ ~SortRaises(FilterMatched(rr_in, rr_resp.matches)) )
    => rr_out.out = MatchedRanking(rr_in, rr_resp.matches)

\* C26: after the reranker has returned, every candidate of the list passed in
\* has the fields and values it had before the call.
C26_InputsUnchanged ==
    rr_out.raised = "none" => rr_out.kb_after = rr_in

\* C27: a finished memory fetch has raised nothing, and when the memory store
\* is unconfigured or one of the searches failed it has returned the empty list.
C27_EmptyOnAnyFailure ==
    built.pc = "done"
    => /\ built.ret = "list"
       /\ (perf.mem0_api_key \in {ABSENT, ""} \/ built.failed > 0)
            => built.out = << >>

\* C28: a memory fetch issues at most 3 searches; what it returns has at most 5
\* memories, no text twice, in descending order of relevance, each with the
\* highest relevance fetched for its text, and no text left out ranks above a
\* returned one.
C28_BestOf(text) ==
    CHOOSE s \in { built.memories[i].relevance_score :
                     i \in { j \in 1..Len(built.memories) :
                               built.memories[j].memory_text = text } } :
        \A i \in 1..Len(built.memories) :
            built.memories[i].memory_text = text
            => built.memories[i].relevance_score <= s

C28_FetchBounds ==
    /\ Len(built.posts) <= 3
    /\ (built.pc = "done" /\ built.ret = "list")
       => LET out == built.out
          IN  /\ Len(out) <= 5
              /\ \A i, j \in 1..Len(out) :
                   i # j => out[i].memory_text # out[j].memory_text
              /\ \A i \in 1..(Len(out) - 1) :
                   out[i].relevance_score >= out[i + 1].relevance_score
              /\ \A i \in 1..Len(out) :
                   /\ \E j \in 1..Len(built.memories) : built.memories[j] = out[i]
                   /\ out[i].relevance_score = C28_BestOf(out[i].memory_text)
              /\ \A j \in 1..Len(built.memories) :
                   (\A i \in 1..Len(out) :
                       out[i].memory_text # built.memories[j].memory_text)
                   => /\ Len(out) = 5
                      /\ built.memories[j].relevance_score <= out[5].relevance_score

\* three searches answered, more than five distinct texts fetched, one text
\* fetched twice with different relevance, and five memories returned
C28_Witness ==
    /\ built.pc = "done" /\ built.ret = "list"
    /\ Len(built.posts) = 3
    /\ Len(built.out) = 5
    /\ Cardinality({ built.memories[i].memory_text : i \in 1..Len(built.memories) }) > 5
    /\ \E i, j \in 1..Len(built.memories) :
         /\ built.memories[i].memory_text = built.memories[j].memory_text
         /\ built.memories[i].relevance_score < built.memories[j].relevance_score

\* C29: when the selection falls back to the weighted score, with no candidate
\* the output is the fixed default directive with confidence 0.5; otherwise the
\* output carries the text of a candidate that maximizes
\* 0.4 success_rate + 0.3 similarity_score + 0.1 |tags /\ situation_tags| + bonus,
\* the bonus being 0.2 for a candidate that is not from the static table and
\* 0.1 for one that is, with confidence 0.6.
C29_Score(st) ==
    4 * st.success_rate + 3 * st.similarity_score
    + 100 * Cardinality(st.tags \cap { perf.situation_tags[i] :
                                        i \in 1..Len(perf.situation_tags) })
    + (IF st.source = "fallback" THEN 100 ELSE 200)

C29_WeightedFallbackChoice ==
    (built.pc = "done" /\ built.path = "simple")
    => IF perf.strategies = << >>
       THEN /\ built.output.strategy_text = DefaultDirective
            /\ built.output.confidence_score = 50
       ELSE /\ built.output.confidence_score = 60
            /\ \E i \in 1..Len(perf.strategies) :
                 /\ built.output.source_strategies = << perf.strategies[i].id >>
                 /\ built.output.strategy_text = perf.strategies[i].strategy_text
                 /\ \A j \in 1..Len(perf.strategies) :
                      C29_Score(perf.strategies[j]) <= C29_Score(perf.strategies[i])

\* C30: a finished selection has raised nothing; a 200 response whose content is
\* not the expected JSON object gives the content cut to 200 characters with
\* confidence 0.6; another status or an exception gives the weighted-score
\* selection.
C30_Unparseable ==
    rr_resp.kind = "ok" /\ rr_resp.body \in {"text", "other_json"}

C30_SelectorDegrades ==
    built.pc = "done"
    => /\ built.ret = "output"
       /\ (built.calls = 1 /\ C30_Unparseable)
          => /\ built.output.strategy_text = Slice(rr_resp.raw, 200)
             /\ built.output.confidence_score = 60
       /\ (built.calls = 1 /\ rr_resp.kind # "ok")
          => built.output =
               select_best_strategy_simple(perf.situation_tags, perf.strategies,
                                           perf.mem0_memories)

\* C31: in a scored assessment whose two paces are positive, whose recorded
\* fatigue is high or severe and whose pace change is within 0.1, the
\* "stabilized" bonus is among the triggered conditions whatever the recorded
\* target status is.
C31_StabilizedIndependent ==
    ( /\ as_out # NotScored
      /\ as_in.before.pace > 0 /\ as_in.after.pace > 0
      /\ as_in.ctx.fatigue \in {"high", "severe"}
      /\ Abs(as_in.after.pace - as_in.before.pace) < 10 )
    => \E i \in 1..Len(as_out.reason) :
           as_out.reason[i] = "Pace stabilized during recovery"

\* C32: in a scored assessment whose recorded target status is behind and whose
\* two paces are positive, the pace bonus is among the triggered conditions
\* exactly when the pace decreased by at least 0.05; in every other scored
\* assessment it is not.
C32_PaceBonus ==
    \E i \in 1..Len(as_out.reason) : as_out.reason[i] = "Pace improved"

C32_PaceBonusAtLeast005 ==
    as_out # NotScored
    => ( C32_PaceBonus
         <=> ( /\ as_in.ctx.target_status \in {"slightly_behind", "way_behind"}
               /\ as_in.before.pace > 0 /\ as_in.after.pace > 0
               /\ as_in.before.pace - as_in.after.pace >= 5 ) )

\* C33: when one task has recorded execution e through _record_execution from a
\* situation whose zone_too_high flag was true, and another task has assessed e
\* (found) with a post zone lower than the pre zone, the assessment is effective
\* and "Moved to lower zone" is among its reasons.
C33_ZoneSignalCarried ==
    \A t \in Tasks, u \in Tasks :
        ( /\ Done(t, "record_execution") /\ task[t].resp = "ok"
          /\ build_situation_context(Snapshot(task[t].snap), "strategist",
                                     "medium").context.zone_too_high
          /\ Done(u, "assess_strategy_effectiveness") /\ task[u].found
          /\ task[u].eid = task[t].eid
          /\ MetricsPair(task[u].metrics).after.zone
               < MetricsPair(task[u].metrics).before.zone )
        => /\ task[u].result.was_effective
           /\ \E i \in 1..Len(task[u].result.reason) :
                  task[u].result.reason[i] = "Moved to lower zone"

\* C34: every scored (found) assessment is effective exactly when at least one
\* bonus condition triggered, which is exactly when its score exceeds 0.5; its
\* reason is the fixed "No significant improvement detected" exactly when none
\* triggered, and otherwise the labels of exactly the triggered conditions in
\* the order pace, heart rate, zone.
C34_Triggered ==
    Opt(PaceImproved(as_in.ctx, as_in.before, as_in.after), "Pace improved")
    \o Opt(PaceStabilized(as_in.ctx, as_in.before, as_in.after),
           "Pace stabilized during recovery")
    \o Opt(HRStabilized(as_in.ctx, as_in.before, as_in.after), "HR stabilized")
    \o Opt(ZoneLowered(as_in.ctx, as_in.before, as_in.after), "Moved to lower zone")

C34_EffectiveIffBonus ==
    as_out # NotScored
    => /\ as_out.was_effective <=> C34_Triggered # << >>
       /\ as_out.was_effective <=> as_out.score > 50
       /\ (as_out.reason = << "No significant improvement detected" >>)
            <=> C34_Triggered = << >>
       /\ C34_Triggered # << >> => as_out.reason = C34_Triggered

\* pace, heart rate and zone conditions triggered together
C34_Witness ==
    /\ as_out # NotScored
    /\ as_out.was_effective
    /\ as_out.reason = << "Pace improved", "HR stabilized", "Moved to lower zone" >>

\* C39: an assessment that returned has score 0.0 exactly when the execution id
\* was not pending at the call; a found execution gets a score of at least
\* 0.5; and the response of the outcome-record call, success or failure, changes
\* nothing in the tuple that was computed before the call.
C39_Score ==
    \A t \in Tasks :
        (Done(t, "assess_strategy_effectiveness") /\ task[t].ret = "tuple")
        => /\ task[t].result.score = 0 <=> ~task[t].present_at_call
           /\ task[t].present_at_call => task[t].result.score >= 50

C39_Persist ==
    \A t \in Tasks :
        ( /\ task[t].op = "assess_strategy_effectiveness" /\ task[t].pc = "await"
          /\ task'[t].pc = "done" )
        => /\ task'[t].ret = "tuple"
           /\ task'[t].result = task[t].result

C39_ScoreFloor == []C39_Score /\ [][C39_Persist]_vars

\* one found execution was assessed twice at once: one assessor's outcome was
\* persisted, the other's was not, and both returned the same score above 0.5
C39_Witness ==
    \E t \in Tasks, u \in Tasks :
        /\ t # u
        /\ Done(t, "assess_strategy_effectiveness") /\ task[t].ret = "tuple"
        /\ Done(u, "assess_strategy_effectiveness") /\ task[u].ret = "tuple"
        /\ task[t].present_at_call /\ task[u].present_at_call
        /\ task[t].eid = task[u].eid
        /\ task[t].persist_ok /\ ~task[u].persist_ok /\ task[u].calls = 1
        /\ task[t].result = task[u].result
        /\ task[t].result.score > 50

\* C35: a step changes or removes a pending entry e only when it is the 200
\* response to an outcome-record call for e, and that step leaves every other
\* entry as it was; a record_strategy_outcome call whose collaborator call
\* fails (another status, an exception, a timeout) returns False and leaves the
\* whole pending store, contexts included, as it was.
C35_Successful(t, e) ==
    /\ task[t].op \in {"record_strategy_outcome", "assess_strategy_effectiveness"}
    /\ task[t].pc = "await" /\ task[t].eid = e
    /\ task'[t].pc = "done" /\ task'[t].resp = "ok"

C35_Removal ==
    \A e \in ExecIds :
        (pending_executions[e].present /\ pending_executions'[e] # pending_executions[e])
        => /\ \E t \in Tasks : C35_Successful(t, e)
           /\ \A o \in ExecIds \ {e} : pending_executions'[o] = pending_executions[o]

C35_Failure ==
    \A t \in Tasks :
        ( /\ task[t].op = "record_strategy_outcome" /\ task[t].pc = "await"
          /\ task'[t].pc = "done" /\ task'[t].resp # "ok" )
        => /\ task'[t].ret = "False"
           /\ pending_executions' = pending_executions

C35_RemovedOnlyBySuccess == [][C35_Removal /\ C35_Failure]_vars

\* the outcome-record call for a pending execution failed, the entry is still
\* in the store and an assessment has found it
C35_Witness ==
    \E t \in Tasks, u \in Tasks :
        /\ Done(t, "record_strategy_outcome") /\ task[t].calls = 1
        /\ task[t].resp \in {"status", "exception"} /\ task[t].ret = "False"
        /\ pending_executions[task[t].eid].present
        /\ Done(u, "assess_strategy_effectiveness") /\ task[u].eid = task[t].eid
        /\ task[u].found /\ task[u].result.score >= 50

\* C36: every step that ends _record_execution ends it without raising; when the
\* execution-record call answered 200 the returned id is set on the output and
\* is pending with the submitted strategy id, which is null for an empty source
\* list and for a first source strategy of the static fallback set; in every
\* other case (another status, an exception, an unconfigured collaborator) the
\* pending store is as it was and the output has no execution id.
C36_Ends(t) ==
    /\ task'[t].op = "record_execution" /\ task'[t].pc = "done"
    /\ task[t].pc # "done" \/ task[t].op # "record_execution" \/ ops' # ops

C36_Step ==
    \A t \in Tasks :
        C36_Ends(t)
        => /\ task'[t].ret = "None"
           /\ IF task'[t].resp = "ok"
              THEN /\ task'[t].output.execution_id = task'[t].eid
                   /\ pending_executions'[task'[t].eid].present
                   /\ pending_executions'[task'[t].eid].strategy_id
                        = IF task'[t].source = "kb-17" THEN "kb-17" ELSE None
              ELSE /\ pending_executions' = pending_executions
                   /\ task'[t].output.execution_id = None

C36_RecordOnlyOnSuccess == [][C36_Step]_vars

\* C40 as stated: in every context built, push_possible and recovery_needed are
\* not both true, and cardiac_drift is true together with neither form_breakdown
\* nor push_possible.
C40_NoContradictoryFlags ==
    (built # NotCalled /\ built.raised = "none")
    => /\ ~(built.context.push_possible /\ built.context.recovery_needed)
       /\ ~(built.context.cardiac_drift /\ built.context.form_breakdown)
       /\ ~(built.context.cardiac_drift /\ built.context.push_possible)

\* C40 as amended: in every context built, push_possible and recovery_needed are
\* both true only when zone_too_high is true, and cardiac_drift is true together
\* with neither form_breakdown nor push_possible.
C40_NoContradictionButZone ==
    (built # NotCalled /\ built.raised = "none")
    => /\ (built.context.push_possible /\ built.context.recovery_needed)
            => built.context.zone_too_high
       /\ ~(built.context.cardiac_drift /\ built.context.form_breakdown)
       /\ ~(built.context.cardiac_drift /\ built.context.push_possible)

\* a fresh runner with a stable heart rate and headroom who spent more than a
\* quarter of the run in zones 4 and 5: push and recovery are both flagged
C40_Witness ==
    /\ built # NotCalled /\ built.raised = "none"
    /\ perf.p.fatigue_level = "low" /\ perf.p.hr_trend = "stable"
    /\ built.context.zone_too_high
    /\ built.context.push_possible /\ built.context.recovery_needed
    /\ ~built.context.cardiac_drift

\* C38: every retrieval that returns a list returns at least one candidate; in
\* particular, when the knowledge base returned candidates and the reranking
\* kept none of them, the list is the static fallback set of the situation.
C38_NeverEmpty ==
    (built.pc = "done" /\ built.ret = "list")
    => /\ Len(built.strategies) >= 1
       /\ (built.calls = 2 /\ rr_out.out = << >>)
            => built.strategies = get_fallback_strategies(RetrievalContext(perf))

\* C37: the step that cancels a request at its awaited outbound call writes
\* neither the strategy cache nor the pending-execution store, and leaves the
\* frames of the other requests as they were.
C37_Cancelled(t) ==
    /\ task[t].pc = "await"
    /\ task'[t].pc = "done" /\ task'[t].resp = "cancelled"

C37_Step ==
    \A t \in Tasks :
        C37_Cancelled(t)
        => /\ strategy_cache' = strategy_cache
           /\ pending_executions' = pending_executions
           /\ task'[t].output.execution_id = None
           /\ \A u \in Tasks \ {t} : task'[u] = task[u]

C37_NoWriteOnCancel == [][C37_Step]_vars

\* the assessment of a pending execution was cancelled at its outcome-record
\* call, which the collaborator had received; the entry is still pending, next
\* to the entry of another request
C37_Witness ==
    \E t \in Tasks :
        /\ Done(t, "assess_strategy_effectiveness") /\ task[t].resp = "cancelled"
        /\ task[t].present_at_call
        /\ pending_executions[task[t].eid].present
        /\ persisted[task[t].eid] = 1
        /\ \E o \in ExecIds \ {task[t].eid} : pending_executions[o].present

====
